---- MODULE Spec2Model ----
(***************************************************************************)
(* A model of supac's reconciliation passes: each backend (Arch, Cargo,     *)
(* Flatpak, Rustup) is constructed from a record (new), then one of its     *)
(* handlers (install = sync, remove = clean, clean_cache) runs against the  *)
(* state it probes, issues commands and runs hooks.  The commands issued    *)
(* and the hooks run by the handler are recorded, in order, in `events'.    *)
(***************************************************************************)
EXTENDS Integers, Sequences, FiniteSets, TLC

VARIABLES
    backend,        \* which backend object exists: "none", "Arch", "Cargo", "Flatpak", "Rustup"
    op,             \* the last call: "none", "new", "sync", "clean", "clean_cache"
    result,         \* its Result: "none", "Ok", "Err"
    new_value,      \* the record the last call to new was given
    arch,           \* the Arch object: packages (name -> Option<Closure>), package_manager, perms
    cargo,          \* the Cargo object: packages (name -> CargoOpts), installopt
    flatpak,        \* the Flatpak object: the pin and package tables of the two installations
    rustup,         \* the Rustup object: toolchains (name -> ToolchainSpec)
    opts,           \* the handler's command options: [dry_run, no_confirm]
    probed,         \* what the handler's probes returned
    events,         \* the commands issued and hooks run by the handler, in order
    main,           \* a run of main over the four backends: where it is and what it did
    decoder         \* a run of the binstall log decoder: the buffer, what is left, the records

vars == <<backend, op, result, new_value, arch, cargo, flatpak, rustup, opts, probed, events,
          main, decoder>>

----------------------------------------------------------------------------
(* Bounds and universes *)

\* the longest package list a backend record carries
MaxEntries == 2

\* package names; "g" is also the name the package manager may report as a group
Pkgs == {"a", "b", "g"}
GroupNames == {"g"}

\* markers of the nu Value model: a missing key, a value of another type
Absent == "<absent>"
WrongType == "<wrongtype>"

\* Option<Closure>: None, or a closure with an empty / non-empty capture list
None == "None"
PureClosure == "closure"
CapturingClosure == "closure+captures"
Closures == {PureClosure, CapturingClosure}

NoValue == [kind |-> "none"]
NoProbe == [kind |-> "none"]
NoOpts == [dry_run |-> FALSE, no_confirm |-> FALSE]
NoArch == [packages |-> <<>>, package_manager |-> "", perms |-> "User"]

----------------------------------------------------------------------------
(* Helpers *)

Range(s) == {s[i] : i \in DOMAIN s}

\* the orders in which a HashSet / HashMap may iterate over S
Orders(S) == {s \in [1..Cardinality(S) -> S] : \A i, j \in DOMAIN s : i # j => s[i] # s[j]}

\* the order in which a tool prints names, one per line
NameOrder == <<"a", "b", "g">>
Lines(S) == SelectSeq(NameOrder, LAMBDA n : n \in S)

RECURSIVE Flatten(_)
Flatten(ss) == IF ss = <<>> THEN <<>> ELSE Head(ss) \o Flatten(Tail(ss))

SeqsUpTo(S, n) == UNION {[1..k -> S] : k \in 0..n}


----------------------------------------------------------------------------
(* commands/mod.rs *)

\* A scheduled hook: the table and key of the spec it belongs to, and the closure
HookRef(table, name, closure) == [table |-> table, name |-> name, closure |-> closure]
NoHook == HookRef("-", "-", None)

\* a builder that never asks for elevation
GetCommandNoSudo(args, perms) ==
    IF args = <<>> THEN [ok |-> FALSE, argv |-> <<>>] ELSE [ok |-> TRUE, argv |-> args]

\* get_command: the argv actually spawned; an empty argument list is an error
get_command(args, perms) ==
    IF args = <<>> THEN [ok |-> FALSE, argv |-> <<>>]
    ELSE [ok |-> TRUE,
          argv |-> (IF perms = "Root" THEN <<"sudo">> ELSE <<>>) \o args]

\* The event a command leaves in the log.  kind classifies the command
\* ("install", "promote", "remove", "pin", "unpin"), items is the trailing
\* list of names it acts on, mode is "run" (spawned) or "dry" (printed).
CmdEvent(mode, kind, args, items, perms, ok) ==
    [type |-> "cmd", mode |-> mode, kind |-> kind,
     argv |-> get_command(args, perms).argv, items |-> items, ok |-> ok,
     id |-> NoHook, patterns |-> <<>>]

\* run_command: spawn the command; exited is the exit status the process
\* reports (TRUE = success).  Returns the event and the Result.
run_command(kind, args, items, perms, exited) ==
    IF ~get_command(args, perms).ok THEN [ev |-> <<>>, ok |-> FALSE]
    ELSE [ev |-> <<CmdEvent("run", kind, args, items, perms, exited)>>, ok |-> exited]

\* dry_run_command: print the command, always Ok
dry_run_command(kind, args, items, perms, exited) ==
    IF ~get_command(args, perms).ok THEN [ev |-> <<>>, ok |-> FALSE]
    ELSE [ev |-> <<CmdEvent("dry", kind, args, items, perms, TRUE)>>, ok |-> TRUE]

\* command_action = if opts.dry_run { dry_run_command } else { run_command }
command_action(dry_run, kind, args, items, perms, exited) ==
    IF dry_run THEN dry_run_command(kind, args, items, perms, exited)
    ELSE run_command(kind, args, items, perms, exited)

----------------------------------------------------------------------------
(* parser/mod.rs: hooks *)

HookEvent(mode, id, ok) ==
    [type |-> "hook", mode |-> mode, kind |-> "hook", argv |-> <<>>,
     items |-> <<>>, ok |-> ok, id |-> id, patterns |-> <<>>]

\* an engine that goes on after a hook has failed
RunClosuresAll(closures, dry_run, hfail) ==
    [ev |-> [i \in DOMAIN closures |->
               HookEvent(IF dry_run THEN "dry" ELSE "exec", closures[i], i # hfail)],
     ok |-> (hfail = 0 \/ hfail > Len(closures))]

\* closures.iter().try_for_each(execute_closure | dry_run_closure): the hooks
\* run in order and stop at the first failure; hfail is the position of the
\* hook that fails (0: none does)
RunClosures(closures, dry_run, hfail) ==
    LET n == IF hfail = 0 \/ hfail > Len(closures) THEN Len(closures) ELSE hfail
    IN [ev |-> [i \in 1..n |->
                  HookEvent(IF dry_run THEN "dry" ELSE "exec", closures[i], i # hfail)],
        ok |-> (hfail = 0 \/ hfail > Len(closures))]

----------------------------------------------------------------------------
(* backends/arch/mod.rs *)

\* the entries a package list may hold: a non-record, or a record with an
\* optional "package" and an optional "post_hook"
NotRecord == [isrec |-> FALSE, package |-> Absent, post_hook |-> Absent]
ArchEntries ==
    {NotRecord} \cup
    [isrec : {TRUE}, package : Pkgs \cup {Absent, WrongType},
     post_hook : Closures \cup {Absent, WrongType}]

\* the value of the "packages" key: absent, not a list, or a list of entries
PackageLists(entries) ==
    {[kind |-> "absent", items |-> <<>>], [kind |-> "notlist", items |-> <<>>]} \cup
    {[kind |-> "list", items |-> s] : s \in SeqsUpTo(entries, MaxEntries)}

\* the config's arch_package_manager key
PackageManagerValues == {Absent, WrongType, "pacman", "paru"}

DEFAULT_PACKAGE_MANAGER == "paru"

\* collect::<Result<HashMap>>: the first Err aborts, a later key replaces an earlier one
RECURSIVE CollectMap(_, _)
CollectMap(specs, acc) ==
    IF specs = <<>> THEN [ok |-> TRUE, map |-> acc]
    ELSE LET s == Head(specs) IN
         IF ~s.ok THEN [ok |-> FALSE, map |-> <<>>]
         ELSE CollectMap(Tail(specs),
                [k \in DOMAIN acc \cup {s.name} |-> IF k = s.name THEN s.spec ELSE acc[k]])

\* value_to_pkgspec (arch): (package, Option<Closure>)
arch_value_to_pkgspec(value) ==
    IF ~value.isrec THEN [ok |-> FALSE, name |-> "", spec |-> None]
    ELSE IF value.package \in {Absent, WrongType} THEN [ok |-> FALSE, name |-> "", spec |-> None]
    ELSE IF value.post_hook = Absent THEN [ok |-> TRUE, name |-> value.package, spec |-> None]
    ELSE IF value.post_hook = WrongType THEN [ok |-> FALSE, name |-> "", spec |-> None]
    ELSE [ok |-> TRUE, name |-> value.package, spec |-> value.post_hook]

\* get_package_manager: (name, Perms)
get_package_manager(config) ==
    IF config = WrongType THEN [ok |-> FALSE, pm |-> "", perms |-> "User"]
    ELSE LET pacman == IF config = Absent THEN DEFAULT_PACKAGE_MANAGER ELSE config IN
         [ok |-> TRUE, pm |-> pacman,
          perms |-> IF pacman = "pacman" THEN "Root" ELSE "User"]

\* Arch::new
Arch_new(value, config) ==
    IF value.kind # "list" THEN [ok |-> FALSE, self |-> NoArch]
    ELSE LET packages == CollectMap([i \in DOMAIN value.items |->
                                        arch_value_to_pkgspec(value.items[i])], <<>>)
             pm == get_package_manager(config)
         IN IF ~packages.ok \/ ~pm.ok THEN [ok |-> FALSE, self |-> NoArch]
            ELSE [ok |-> TRUE,
                  self |-> [packages |-> packages.map, package_manager |-> pm.pm,
                            perms |-> pm.perms]]

\* what the Arch probes can return: the explicitly installed packages, the
\* packages installed as dependencies, the known groups and their members
ArchEnvs ==
    UNION {UNION {
        {[kind |-> "arch", explicit |-> E, deps |-> D, groups |-> Lines(G), members |-> M] :
            D \in SUBSET (Pkgs \ E), M \in [G -> {Lines(S) : S \in SUBSET Pkgs}]} :
        E \in SUBSET Pkgs} : G \in SUBSET GroupNames}

\* the configured names the group query reports as groups, in its order
\* (lines 64-66 / 175-177: groups.lines().filter(|group| configured.remove(group)))
ArchConfiguredGroups(self, env) ==
    SelectSeq(env.groups, LAMBDA g : g \in DOMAIN self.packages)

\* the configured names left as plain packages
ArchConfiguredPlain(self, env) ==
    DOMAIN self.packages \ Range(ArchConfiguredGroups(self, env))

\* a faulty expansion that keeps only the first member of each group: C8 must
\* not survive it
ArchGroupPackagesFirstOnly(self, env) ==
    [i \in DOMAIN ArchConfiguredGroups(self, env) |->
        LET members == env.members[ArchConfiguredGroups(self, env)[i]]
        IN IF members = <<>> THEN <<>> ELSE <<Head(members)>>]

\* get_installed_group_packages, for each configured group
ArchGroupPackages(self, env) ==
    [i \in DOMAIN ArchConfiguredGroups(self, env) |->
        env.members[ArchConfiguredGroups(self, env)[i]]]

\* the hooks pushed while the configured groups are resolved (lines 67-71)
ArchGroupClosures(self, env) ==
    LET gs == SelectSeq(ArchConfiguredGroups(self, env),
                        LAMBDA g : self.packages[g] # None)
    IN [i \in DOMAIN gs |-> HookRef("packages", gs[i], self.packages[gs[i]])]

\* a faulty selection that forgets the filter on the explicitly installed
\* packages: C6 must not survive it
ArchMissingUnfiltered(self, env, ord) ==
    ord \o Flatten(ArchGroupPackages(self, env))

\* lines 75-94: the plain packages (in HashSet order ord) chained with the
\* group members, less the explicitly installed ones
ArchMissing(self, env, ord) ==
    SelectSeq(ord \o Flatten(ArchGroupPackages(self, env)),
              LAMBDA p : p \notin env.explicit)

\* the hooks pushed while the missing packages are walked (lines 84-93)
ArchMissingClosures(self, env, ord) ==
    LET ps == SelectSeq(ArchMissing(self, env, ord),
                        LAMBDA p : p \in DOMAIN self.packages /\ self.packages[p] # None)
    IN [i \in DOMAIN ps |-> HookRef("packages", ps[i], self.packages[ps[i]])]

ArchClosures(self, env, ord) ==
    ArchGroupClosures(self, env) \o ArchMissingClosures(self, env, ord)

\* a split that sends every missing package to the install list
ArchPartitionNone(all, dependencies) == [reason_change |-> <<>>, missing |-> all]

\* lines 103-104: missing.partition(|package| dependencies.contains(*package))
ArchPartition(all, dependencies) ==
    [reason_change |-> SelectSeq(all, LAMBDA p : p \in dependencies),
     missing |-> SelectSeq(all, LAMBDA p : p \notin dependencies)]

NoConfirmFlag(o) == IF o.no_confirm THEN <<"--noconfirm">> ELSE <<>>

\* Arch::install.  exit1, exit2: the exit status of the --sync and of the
\* --database --asexplicit command; hfail: the hook that fails, if any.
Arch_install(self, o, env, ord, exit1, exit2, hfail) ==
    LET pm == self.package_manager
        all == ArchMissing(self, env, ord)
        closures == ArchClosures(self, env, ord)
        reason_change == ArchPartition(all, env.deps).reason_change
        missing == ArchPartition(all, env.deps).missing
        install_result ==
            command_action(o.dry_run, "install",
                           <<pm, "--sync">> \o NoConfirmFlag(o) \o missing,
                           missing, self.perms, exit1)
        reason_result ==
            command_action(o.dry_run, "promote",
                           <<pm, "--database", "--asexplicit">> \o reason_change,
                           reason_change, self.perms, exit2)
        cmds == install_result.ev \o reason_result.ev
        hooks == RunClosures(closures, o.dry_run, hfail)
    IN IF all = <<>> THEN [events |-> <<>>, result |-> "Ok"]
       ELSE IF ~install_result.ok \/ ~reason_result.ok
            THEN [events |-> cmds, result |-> "Err"]
       ELSE [events |-> cmds \o hooks.ev,
             result |-> IF hooks.ok THEN "Ok" ELSE "Err"]

\* a faulty selection that forgets to take the configured packages out
ArchExtraAll(self, env) == env.explicit

\* Arch::remove.  ord: the order in which the HashSet difference iterates;
\* exit1: the exit status of the --remove command.
ArchExtra(self, env) ==
    env.explicit \ (Range(Flatten(ArchGroupPackages(self, env)))
                    \cup ArchConfiguredPlain(self, env))

Arch_remove(self, o, env, ord, exit1) ==
    LET pm == self.package_manager
        removed ==
            command_action(o.dry_run, "remove",
                           <<pm, "--remove", "--nosave", "--recursive", "--unneeded">>
                               \o NoConfirmFlag(o) \o ord,
                           ord, self.perms, exit1)
    IN IF ord = <<>> THEN [events |-> <<>>, result |-> "Ok"]
       ELSE [events |-> removed.ev, result |-> IF removed.ok THEN "Ok" ELSE "Err"]

\* what the unused-dependency query of clean_cache can return: a failure, or
\* its output lines
ArchUnusedEnvs ==
    {[kind |-> "unused", ok |-> FALSE, unused |-> <<>>]} \cup
    {[kind |-> "unused", ok |-> TRUE, unused |-> Lines(S)] : S \in SUBSET Pkgs}

\* Arch::clean_cache
Arch_clean_cache(self, o, env, exit1) ==
    LET pm == self.package_manager
        removed ==
            command_action(o.dry_run, "remove",
                           <<pm, "--remove", "--nosave", "--recursive", "--unneeded">>
                               \o NoConfirmFlag(o) \o env.unused,
                           env.unused, self.perms, exit1)
    IN IF ~env.ok THEN [events |-> <<>>, result |-> "Ok"]
       ELSE [events |-> removed.ev, result |-> IF removed.ok THEN "Ok" ELSE "Err"]

----------------------------------------------------------------------------
(* backends/cargo/mod.rs *)

CargoNames == {"a", "b"}

\* an entry of the Cargo packages list; features is absent, not a list, or a
\* list whose elements are strings or not
CargoEntry(package, all_features, no_default_features, features, git_remote, post_hook) ==
    [isrec |-> TRUE, package |-> package, all_features |-> all_features,
     no_default_features |-> no_default_features, features |-> features,
     git_remote |-> git_remote, post_hook |-> post_hook]
NoFeatures == [kind |-> "absent", items |-> <<>>]
FlagValues == {Absent, WrongType, "true", "false"}
FeatureValues ==
    {NoFeatures, [kind |-> "notlist", items |-> <<>>]}
    \cup {[kind |-> "list", items |-> l] : l \in {<<>>, <<"f">>, <<"f", "g">>, <<WrongType>>}}

\* the entries that carry a name and a hook only
CargoEntries ==
    {[CargoEntry(Absent, Absent, Absent, NoFeatures, Absent, Absent) EXCEPT !.isrec = FALSE]}
    \cup {CargoEntry(p, Absent, Absent, NoFeatures, Absent, h) :
             p \in CargoNames \cup {Absent, WrongType}, h \in Closures \cup {Absent, WrongType}}

\* the entries that carry feature flags, a feature list or a git remote
CargoFeatureEntries ==
    {CargoEntry("a", af, ndf, f, Absent, Absent) :
        af \in FlagValues, ndf \in FlagValues, f \in FeatureValues}
    \cup {CargoEntry("a", Absent, Absent, NoFeatures, g, Absent) :
             g \in {WrongType, "https://example.org/a.git"}}

\* the config's cargo_use_binstall key, when present
BinstallValues == {WrongType, "true", "false"}

NoCargo == [packages |-> <<>>, installopt |-> ""]

NoCargoOpts ==
    [features |-> <<>>, all_features |-> FALSE, no_default_features |-> FALSE,
     git_remote |-> None, post_hook |-> None]

\* a reader that looks at the key whatever all_features is
NoDefaultFeaturesUnfiltered(value, all_features) == value.no_default_features

\* record.get(NO_DEFAULT_FEATURES_KEY).filter(|_| !all_features)
no_default_features_key(value, all_features) ==
    IF all_features THEN Absent ELSE value.no_default_features

\* record.get(FEATURES_KEY).filter(|_| !all_features && !no_default_features)
features_key(value, all_features, no_default_features) ==
    IF all_features \/ no_default_features THEN NoFeatures ELSE value.features

\* value_to_pkgspec (cargo): (package, CargoOpts)
cargo_value_to_pkgspec(value) ==
    LET all_features == value.all_features = "true"
        ndf_key == no_default_features_key(value, all_features)
        no_default_features == ndf_key = "true"
        features == features_key(value, all_features, no_default_features)
        bad == [ok |-> FALSE, name |-> "", spec |-> NoCargoOpts]
    IN IF ~value.isrec THEN bad
       ELSE IF value.package \in {Absent, WrongType} THEN bad
       ELSE IF value.all_features = WrongType THEN bad
       ELSE IF ndf_key = WrongType THEN bad
       ELSE IF features.kind = "notlist" THEN bad
       ELSE IF \E i \in DOMAIN features.items : features.items[i] = WrongType THEN bad
       ELSE IF value.git_remote = WrongType THEN bad
       ELSE IF value.post_hook = WrongType THEN bad
       ELSE [ok |-> TRUE, name |-> value.package,
             spec |-> [features |-> features.items,
                       all_features |-> all_features,
                       no_default_features |-> no_default_features,
                       git_remote |-> IF value.git_remote = Absent THEN None
                                      ELSE value.git_remote,
                       post_hook |-> IF value.post_hook = Absent THEN None
                                     ELSE value.post_hook]]

\* get_binstall_opt
get_binstall_opt(config) ==
    IF config = WrongType THEN [ok |-> FALSE, val |-> FALSE]
    ELSE [ok |-> TRUE, val |-> (config = "true")]

\* Cargo::new
Cargo_new(value, config) ==
    IF value.kind # "list" THEN [ok |-> FALSE, self |-> NoCargo]
    ELSE LET packages == CollectMap([i \in DOMAIN value.items |->
                                        cargo_value_to_pkgspec(value.items[i])], <<>>)
             binstall == get_binstall_opt(config)
         IN IF ~packages.ok \/ ~binstall.ok THEN [ok |-> FALSE, self |-> NoCargo]
            ELSE [ok |-> TRUE,
                  self |-> [packages |-> packages.map,
                            installopt |-> IF binstall.val THEN "binstall" ELSE "install"]]

\* what Cargo reads from disk and from the user: whether .crates2.json and the
\* binstall log can be read, the names in the former, the packages of the
\* latter and those among them whose binaries all exist; the answer to the
\* confirmation prompt
CargoFiles(installer) ==
    {[crates_read |-> FALSE, source |-> {}, binstall_read |-> FALSE, log |-> {}, bins |-> {}]}
    \cup
    UNION {
        {[crates_read |-> TRUE, source |-> S, binstall_read |-> FALSE, log |-> {}, bins |-> {}]}
        \cup (IF installer # "binstall" THEN {} ELSE
              UNION {{[crates_read |-> TRUE, source |-> S, binstall_read |-> TRUE,
                       log |-> L, bins |-> B] : B \in SUBSET L} : L \in SUBSET CargoNames})
        : S \in SUBSET CargoNames}

Answers(o) == IF o.no_confirm THEN {"-"} ELSE {"yes", "no", "error"}

CargoEnv(files, answer) ==
    [kind |-> "cargo", crates_read |-> files.crates_read, source |-> files.source,
     binstall_read |-> files.binstall_read, log |-> files.log, bins |-> files.bins,
     answer |-> answer]

\* get_installed_packages_from_binstall_spec: the logged packages whose
\* binaries all exist
get_installed_packages_from_binstall_spec(env) == env.bins

\* Cargo::get_installed_packages
Cargo_get_installed_packages(self, env) ==
    IF ~env.crates_read THEN {}
    ELSE IF self.installopt = "binstall"
         THEN IF ~env.binstall_read THEN {}
              ELSE env.source \cup get_installed_packages_from_binstall_spec(env)
    ELSE env.source

\* a faulty selection that takes every configured package as missing: C7 must
\* not survive it
CargoMissingAll(self, env) == DOMAIN self.packages

CargoMissing(self, env) ==
    DOMAIN self.packages \ Cargo_get_installed_packages(self, env)

CargoExtra(self, env) ==
    Cargo_get_installed_packages(self, env) \ DOMAIN self.packages

\* install_package
install_package(name, spec, installer, o, exited) ==
    command_action(o.dry_run, "install",
                   <<"cargo", installer>>
                     \o (IF spec.git_remote # None THEN <<"--git", spec.git_remote>> ELSE <<>>)
                     \o (IF spec.all_features THEN <<"--all-features">> ELSE <<>>)
                     \o (IF spec.no_default_features THEN <<"--no-default-features">>
                         ELSE <<>>)
                     \o (IF spec.features # <<>> THEN <<"--features">> \o spec.features
                         ELSE <<>>)
                     \o (IF installer = "binstall" THEN <<"--no-confirm">> ELSE <<>>)
                     \o <<name>>,
                   <<name>>, "User", exited)

\* missing_packages.iter().try_for_each(install_package): one command per
\* package, in HashMap order, until one fails; cfail is the position of the
\* command that exits non-zero (0: none does)
RECURSIVE TryForEach(_, _)
TryForEach(cmds, i) ==
    IF i > Len(cmds) THEN [ev |-> <<>>, ok |-> TRUE]
    ELSE LET c == cmds[i] IN
         IF ~c.ok THEN [ev |-> c.ev, ok |-> FALSE]
         ELSE LET rest == TryForEach(cmds, i + 1)
              IN [ev |-> c.ev \o rest.ev, ok |-> rest.ok]

\* lines 91-93: the hooks pushed while the missing packages are walked in the
\* order ord
CargoPostHooks(self, ord) ==
    LET ps == SelectSeq(ord, LAMBDA p : self.packages[p].post_hook # None)
    IN [i \in DOMAIN ps |-> HookRef("packages", ps[i], self.packages[ps[i]].post_hook)]

\* Cargo::install
Cargo_install(self, o, env, ord, cfail, hfail) ==
    LET post_hooks == CargoPostHooks(self, ord)
        installs == TryForEach([i \in DOMAIN ord |->
                                   install_package(ord[i], self.packages[ord[i]],
                                                   self.installopt, o, i # cfail)],
                               1)
        \* the hooks pushed before the command that failed
        hooks == RunClosures(post_hooks, o.dry_run, hfail)
    IN IF ord = <<>> THEN [events |-> <<>>, result |-> "Ok"]
       ELSE IF ~o.no_confirm /\ env.answer = "error" THEN [events |-> <<>>, result |-> "Err"]
       ELSE IF ~o.no_confirm /\ env.answer = "no" THEN [events |-> <<>>, result |-> "Ok"]
       ELSE IF ~installs.ok THEN [events |-> installs.ev, result |-> "Err"]
       ELSE [events |-> installs.ev \o hooks.ev,
             result |-> IF hooks.ok THEN "Ok" ELSE "Err"]

\* Cargo::remove
Cargo_remove(self, o, env, ord, cfail) ==
    LET removals == TryForEach([i \in DOMAIN ord |->
                                   command_action(o.dry_run, "remove",
                                                  <<"cargo", "uninstall", ord[i]>>,
                                                  <<ord[i]>>, "User", i # cfail)],
                               1)
    IN IF ord = <<>> THEN [events |-> <<>>, result |-> "Ok"]
       ELSE IF ~o.no_confirm /\ env.answer = "error" THEN [events |-> <<>>, result |-> "Err"]
       ELSE IF ~o.no_confirm /\ env.answer = "no" THEN [events |-> <<>>, result |-> "Ok"]
       ELSE [events |-> removals.ev, result |-> IF removals.ok THEN "Ok" ELSE "Err"]

----------------------------------------------------------------------------
(* backends/flatpak/mod.rs: construction *)

\* Within the bounds a Flatpak record configures one application, "app", and
\* pins one runtime, "foo"; each list holds at most one entry, which is either
\* well typed or has a single field of the wrong type.
FlatpakApps == {"app"}
FlatpakRuntimes == {"foo"}
FlatpakOrder == <<"app", "foo">>

FlatpakPkgEntry(package, remote, systemwide, post_hook) ==
    [isrec |-> TRUE, package |-> package, remote |-> remote,
     systemwide |-> systemwide, post_hook |-> post_hook]

FlatpakPkgEntries ==
    {FlatpakPkgEntry(n, r, Absent, h) :
        n \in FlatpakApps, r \in {Absent, "flathub"}, h \in Closures \cup {Absent}}
    \cup {[FlatpakPkgEntry("app", Absent, Absent, Absent) EXCEPT !.isrec = FALSE],
          FlatpakPkgEntry(Absent, Absent, Absent, Absent),
          FlatpakPkgEntry(WrongType, Absent, Absent, Absent),
          FlatpakPkgEntry("app", WrongType, Absent, Absent),
          FlatpakPkgEntry("app", Absent, WrongType, Absent),
          FlatpakPkgEntry("app", Absent, Absent, WrongType)}

FlatpakPinEntry(package, branch, arc, systemwide, post_hook) ==
    [isrec |-> TRUE, package |-> package, branch |-> branch, arch |-> arc,
     systemwide |-> systemwide, post_hook |-> post_hook]

FlatpakPinEntries ==
    {FlatpakPinEntry(n, b, a, Absent, h) :
        n \in FlatpakRuntimes, b \in {Absent, "stable"}, a \in {Absent, "x86_64"},
        h \in Closures \cup {Absent}}
    \cup {[FlatpakPinEntry("foo", Absent, Absent, Absent, Absent) EXCEPT !.isrec = FALSE],
          FlatpakPinEntry(Absent, Absent, Absent, Absent, Absent),
          FlatpakPinEntry(WrongType, Absent, Absent, Absent, Absent),
          FlatpakPinEntry("foo", WrongType, Absent, Absent, Absent),
          FlatpakPinEntry("foo", Absent, WrongType, Absent, Absent),
          FlatpakPinEntry("foo", Absent, Absent, WrongType, Absent),
          FlatpakPinEntry("foo", Absent, Absent, Absent, WrongType)}

ShortLists(entries) ==
    {[kind |-> "absent", items |-> <<>>], [kind |-> "notlist", items |-> <<>>],
     [kind |-> "list", items |-> <<>>]}
    \cup {[kind |-> "list", items |-> <<e>>] : e \in entries}

\* the lists of two entries
PairLists(entries) == {[kind |-> "list", items |-> <<e1, e2>>] : e1, e2 \in entries}

\* the entries of the `remotes' list: a record with a name and a url, or a
\* value that lacks one of the two
RemoteEntry(package, url) == [isrec |-> TRUE, package |-> package, url |-> url]
RemoteEntries ==
    {RemoteEntry("flathub", "https://flathub.org/repo"),
     RemoteEntry("beta", "https://flathub.org/beta-repo"),
     [RemoteEntry("flathub", Absent) EXCEPT !.isrec = FALSE],
     RemoteEntry(Absent, "https://flathub.org/repo"),
     RemoteEntry(WrongType, "https://flathub.org/repo"),
     RemoteEntry("flathub", Absent), RemoteEntry("flathub", WrongType)}

\* the pins that are tried in lists of two
PairedPinEntries == {e \in FlatpakPinEntries : e.post_hook \in {Absent, WrongType}}

\* the config's flatpak_default_systemwide key
SystemwideValues == {Absent, WrongType, "true", "false"}

DEFAULT_FLATPAK_SYSTEMWIDE == FALSE

NoFlatpak ==
    [remotes |-> <<>>, user_pinned |-> <<>>, system_pinned |-> <<>>,
     user_packages |-> <<>>, system_packages |-> <<>>]

NoSpec == [ok |-> FALSE, name |-> "", spec |-> <<>>]

\* Option<Closure> of a post_hook that is a closure: a capturing one is ignored
NonCapturing(closure) == IF closure = CapturingClosure THEN None ELSE closure

OptionOf(v) == IF v = Absent THEN None ELSE v

\* val.as_bool() of a systemwide key, or the default
SystemwideOf(v, default_systemwide) ==
    IF v = Absent THEN default_systemwide ELSE (v = "true")

\* value_to_pkgspec (flatpak): (name, FlatpakOpts)
flatpak_value_to_pkgspec(value, default_systemwide) ==
    IF ~value.isrec THEN NoSpec
    ELSE IF value.package \in {Absent, WrongType} THEN NoSpec
    ELSE IF value.remote = WrongType THEN NoSpec
    ELSE IF value.systemwide = WrongType THEN NoSpec
    ELSE IF value.post_hook = WrongType THEN NoSpec
    ELSE [ok |-> TRUE, name |-> value.package,
          spec |-> [remote |-> OptionOf(value.remote),
                    systemwide |-> SystemwideOf(value.systemwide, default_systemwide),
                    post_hook |-> IF value.post_hook = Absent THEN None
                                  ELSE NonCapturing(value.post_hook)]]

\* value_to_pinspec: (name, PinOpts)
value_to_pinspec(value, default_systemwide) ==
    IF ~value.isrec THEN NoSpec
    ELSE IF value.package \in {Absent, WrongType} THEN NoSpec
    ELSE IF value.branch = WrongType THEN NoSpec
    ELSE IF value.arch = WrongType THEN NoSpec
    ELSE IF value.systemwide = WrongType THEN NoSpec
    ELSE IF value.post_hook = WrongType THEN NoSpec
    ELSE [ok |-> TRUE, name |-> value.package,
          spec |-> [branch |-> OptionOf(value.branch), arch |-> OptionOf(value.arch),
                    systemwide |-> SystemwideOf(value.systemwide, default_systemwide),
                    post_hook |-> IF value.post_hook = Absent THEN None
                                  ELSE NonCapturing(value.post_hook)]]

\* partition(|(_, opts)| !opts.systemwide) into two HashMaps
Partition(specs, systemwide) ==
    CollectMap(SelectSeq(specs, LAMBDA s : s.spec.systemwide = systemwide), <<>>).map

\* extract_remote: Some((name, url)), or None
extract_remote(remote) ==
    IF ~remote.isrec THEN NoSpec
    ELSE IF remote.package \in {Absent, WrongType} THEN NoSpec
    ELSE IF remote.url \in {Absent, WrongType} THEN NoSpec
    ELSE [ok |-> TRUE, name |-> remote.package, spec |-> remote.url]

\* a reader of lists that gives up at the first entry it cannot parse
KeepUntilFailure(specs) ==
    IF \E i \in DOMAIN specs : ~specs[i].ok
    THEN SubSeq(specs, 1, (CHOOSE i \in DOMAIN specs :
                             ~specs[i].ok /\ \A j \in 1..(i - 1) : specs[j].ok) - 1)
    ELSE specs

\* flat_map over Options and Results: the entries that parsed, in order
KeepParsed(specs) == SelectSeq(specs, LAMBDA s : s.ok)

\* values_to_remotes: the entries that fail to parse are dropped
values_to_remotes(remotes) ==
    CollectMap(KeepParsed([i \in DOMAIN remotes |-> extract_remote(remotes[i])]), <<>>).map

\* values_to_pins: the entries that fail to parse are dropped
values_to_pins(values, default_systemwide) ==
    LET specs == KeepParsed([i \in DOMAIN values |->
                               value_to_pinspec(values[i], default_systemwide)])
    IN [user |-> Partition(specs, FALSE), system |-> Partition(specs, TRUE)]

\* Flatpak::new
Flatpak_new(value, config) ==
    LET default_systemwide ==
            IF config = Absent THEN DEFAULT_FLATPAK_SYSTEMWIDE ELSE (config = "true")
        pins == values_to_pins(value.pinned.items, default_systemwide)
        specs == [i \in DOMAIN value.packages.items |->
                    flatpak_value_to_pkgspec(value.packages.items[i], default_systemwide)]
    IN IF config = WrongType THEN [ok |-> FALSE, self |-> NoFlatpak]
       ELSE IF value.remotes.kind = "notlist" THEN [ok |-> FALSE, self |-> NoFlatpak]
       ELSE IF value.pinned.kind = "notlist" THEN [ok |-> FALSE, self |-> NoFlatpak]
       ELSE IF value.packages.kind # "list" THEN [ok |-> FALSE, self |-> NoFlatpak]
       ELSE IF \E i \in DOMAIN specs : ~specs[i].ok THEN [ok |-> FALSE, self |-> NoFlatpak]
       ELSE [ok |-> TRUE,
             self |-> [remotes |-> values_to_remotes(value.remotes.items),
                       user_pinned |-> pins.user, system_pinned |-> pins.system,
                       user_packages |-> Partition(specs, FALSE),
                       system_packages |-> Partition(specs, TRUE)]]

----------------------------------------------------------------------------
(* backends/flatpak/mod.rs: handlers *)

\* A line of `flatpak pin` is held as its segments between the '/' separators
PinLines == <<(<<"foo", "x86_64", "stable">>), (<<"runtime", "foo", "x86_64", "beta">>)>>

\* what the Flatpak probes return for one installation: the installed
\* applications and runtimes, and the pinned patterns
FlatpakScopes ==
    {[installed |-> I, pins |-> SelectSeq(PinLines, LAMBDA l : l \in P)] :
        I \in SUBSET (FlatpakApps \cup FlatpakRuntimes), P \in SUBSET Range(PinLines)}
EmptyScope == [installed |-> {}, pins |-> <<>>]

\* within the bounds at most one of the two installations holds anything;
\* failed is the position of the handler's step that fails (0: none does)
FlatpakEnvs ==
    {[kind |-> "flatpak", user |-> e, system |-> EmptyScope, failed |-> 0] :
        e \in FlatpakScopes}
    \cup {[kind |-> "flatpak", user |-> EmptyScope, system |-> e, failed |-> 0] :
        e \in FlatpakScopes}

\* stands for the iteration order of a HashMap's keys
Iter(S) == SelectSeq(FlatpakOrder, LAMBDA n : n \in S)

\* parse_runtime_format, on the segments of runtime_string.split('/')
parse_runtime_format(segments, systemwide) ==
    LET skip == IF segments[1] = "runtime" THEN 2 ELSE 1
        field(i) == IF i <= Len(segments) /\ segments[i] # "" THEN segments[i] ELSE None
    IN [runtime |-> segments[skip],
        opts |-> [arch |-> field(skip + 1), branch |-> field(skip + 2),
                  systemwide |-> systemwide, post_hook |-> None]]

\* a handler's step: a probe, a command that is always spawned, or a command
\* that the dry-run flag turns into a print
ProbeStep == [t |-> "probe", kind |-> "-", args |-> <<>>, items |-> <<>>, patterns |-> <<>>]
RunStep(kind, args, items, patterns) ==
    [t |-> "run", kind |-> kind, args |-> args, items |-> items, patterns |-> patterns]
ActionStep(kind, args, items) ==
    [t |-> "action", kind |-> kind, args |-> args, items |-> items, patterns |-> <<>>]

WithPatterns(r, patterns) ==
    [r EXCEPT !.ev = [i \in DOMAIN r.ev |-> [r.ev[i] EXCEPT !.patterns = patterns]]]

\* the steps are taken in order until one fails (each is followed by `?');
\* fail is the position of the step that fails (0: none does)
DoStep(step, dry_run, exited) ==
    IF step.t = "probe" THEN [ev |-> <<>>, ok |-> exited]
    ELSE IF step.t = "run"
         THEN WithPatterns(run_command(step.kind, step.args, step.items, "User", exited),
                           step.patterns)
    ELSE command_action(dry_run, step.kind, step.args, step.items, "User", exited)

DoSteps(steps, dry_run, fail) ==
    TryForEach([i \in DOMAIN steps |-> DoStep(steps[i], dry_run, i # fail)], 1)

ScopeFlag(systemwide) == IF systemwide THEN "--system" ELSE "--user"
ScopeEnv(env, systemwide) == IF systemwide THEN env.system ELSE env.user
PinTable(systemwide) == IF systemwide THEN "system_pinned" ELSE "user_pinned"
PkgTable(systemwide) == IF systemwide THEN "system_packages" ELSE "user_packages"
configured_pins(self, systemwide) ==
    IF systemwide THEN self.system_pinned ELSE self.user_pinned
configured_packages(self, systemwide) ==
    IF systemwide THEN self.system_packages ELSE self.user_packages

\* a prober that recognises no listed pin
InstalledPinsNone(env, systemwide) == {}

\* lines 182-187: the ids of the listed pins whose runtime is installed
installed_pins(env, systemwide) ==
    LET sc == ScopeEnv(env, systemwide) IN
    {parse_runtime_format(sc.pins[i], FALSE).runtime : i \in DOMAIN sc.pins}
        \cap sc.installed

\* lines 189-191
missing_pins(self, env, systemwide) ==
    Iter(DOMAIN configured_pins(self, systemwide) \ installed_pins(env, systemwide))

\* lines 197-209, 221: the pattern given to `flatpak pin`, as its segments
PinPattern(pin, o) ==
    <<pin>> \o (IF o.branch = None THEN <<>> ELSE <<o.branch>>)
            \o (IF o.arch = None THEN <<>> ELSE <<o.arch>>)

HooksOf(table, map, keys) ==
    LET ks == SelectSeq(keys, LAMBDA k : map[k].post_hook # None)
    IN [i \in DOMAIN ks |-> HookRef(table, ks[i], map[ks[i]].post_hook)]

\* Flatpak::install_pins
install_pins(self, env, systemwide) ==
    LET flag == ScopeFlag(systemwide)
        pins == configured_pins(self, systemwide)
        missing == missing_pins(self, env, systemwide)
    IN [closures |-> HooksOf(PinTable(systemwide), pins, missing),
        steps |-> <<ProbeStep>> \o
            (IF missing = <<>> THEN <<>>
             ELSE [i \in DOMAIN missing |->
                     RunStep("pin", <<"flatpak", "pin", flag, "<pattern>">>, <<missing[i]>>,
                             <<PinPattern(missing[i], pins[missing[i]])>>)]
                  \o <<ActionStep("install", <<"flatpak", "install", flag>> \o missing,
                                  missing)>>)]

\* Flatpak::install_packages
install_packages(self, env, systemwide) ==
    LET flag == ScopeFlag(systemwide)
        pkgs == configured_packages(self, systemwide)
        wanted == DOMAIN pkgs \ ScopeEnv(env, systemwide).installed
        free_packages == Iter({n \in wanted : pkgs[n].remote = None})
        ref_packages == Iter({n \in wanted : pkgs[n].remote # None})
    IN [closures |-> HooksOf(PkgTable(systemwide), pkgs, free_packages)
                     \o HooksOf(PkgTable(systemwide), pkgs, ref_packages),
        steps |->
            (IF free_packages = <<>> THEN <<>>
             ELSE <<RunStep("install", <<"flatpak", "install", flag>> \o free_packages,
                            free_packages, <<>>)>>)
            \o [i \in DOMAIN ref_packages |->
                  ActionStep("install",
                             <<"flatpak", "install", flag, pkgs[ref_packages[i]].remote,
                               ref_packages[i]>>,
                             <<ref_packages[i]>>)]]

FlatpakInstallPlan(self, env) ==
    LET up == install_pins(self, env, FALSE)
        uk == install_packages(self, env, FALSE)
        sp == install_pins(self, env, TRUE)
        sk == install_packages(self, env, TRUE)
    IN [closures |-> up.closures \o uk.closures \o sp.closures \o sk.closures,
        steps |-> <<ProbeStep>> \o up.steps \o uk.steps
                  \o <<ProbeStep>> \o sp.steps \o sk.steps]

\* Flatpak::install
Flatpak_install(self, o, env, fail, hfail) ==
    LET plan == FlatpakInstallPlan(self, env)
        done == DoSteps(plan.steps, o.dry_run, fail)
        hooks == RunClosures(plan.closures, o.dry_run, hfail)
    IN IF ~done.ok THEN [events |-> done.ev, result |-> "Err"]
       ELSE [events |-> done.ev \o hooks.ev, result |-> IF hooks.ok THEN "Ok" ELSE "Err"]

\* Flatpak::remove_pins
remove_pins(self, env, systemwide) ==
    LET flag == ScopeFlag(systemwide)
        lines == ScopeEnv(env, systemwide).pins
        pins == [i \in DOMAIN lines |-> parse_runtime_format(lines[i], FALSE).runtime]
        extra == SelectSeq(pins, LAMBDA r : r \notin DOMAIN configured_pins(self, systemwide))
    IN <<ProbeStep>> \o
       [i \in DOMAIN extra |->
          ActionStep("unpin", <<"flatpak", "pin", "--remove", flag, extra[i]>>, <<extra[i]>>)]

\* Flatpak::remove_packages
remove_packages(self, env, systemwide) ==
    LET flag == ScopeFlag(systemwide)
        installed_package == ScopeEnv(env, systemwide).installed \cap FlatpakApps
        extra_packages ==
            Iter(installed_package \ DOMAIN configured_packages(self, systemwide))
    IN <<ProbeStep,
         ActionStep("remove", <<"flatpak", "remove", flag, "--delete-data">> \o extra_packages,
                    extra_packages)>>

FlatpakRemovePlan(self, env) ==
    remove_pins(self, env, FALSE) \o remove_pins(self, env, TRUE)
        \o remove_packages(self, env, FALSE) \o remove_packages(self, env, TRUE)

\* Flatpak::remove
Flatpak_remove(self, o, env, fail) ==
    LET done == DoSteps(FlatpakRemovePlan(self, env), o.dry_run, fail)
    IN [events |-> done.ev, result |-> IF done.ok THEN "Ok" ELSE "Err"]

----------------------------------------------------------------------------
(* backends/rustup/mod.rs *)

\* a rustup without default components
NoDefaultComponents == <<>>

DEFAULT_COMPONENTS ==
    <<"cargo", "clippy", "rust-docs", "rust-std", "rust-src", "rustc", "rustfmt">>

ToolchainNames == <<"stable", "nightly", "stable-x86_64-unknown-linux-gnu">>
\* the lines of `rustup toolchain list'
ToolchainLines ==
    <<"stable-x86_64-unknown-linux-gnu (default)", "beta-x86_64-unknown-linux-gnu">>
\* a reader that keeps the whole line
WholeLine(line) == line

\* toolchain.split_once(' ').map_or(toolchain, |split| split.0)
FirstToken(line) ==
    IF line = "stable-x86_64-unknown-linux-gnu (default)"
    THEN "stable-x86_64-unknown-linux-gnu"
    ELSE line
TargetLines == <<"x86_64-unknown-linux-gnu", "wasm32-unknown-unknown">>
ComponentLines ==
    <<"rustc-x86_64-unknown-linux-gnu", "rustc-dev-x86_64-unknown-linux-gnu",
      "rust-analyzer-x86_64-unknown-linux-gnu">>

\* str::starts_with over the names above: the proper prefixes of s among them
Prefixes(s) ==
    CASE s = "stable-x86_64-unknown-linux-gnu" -> {"stable"}
      [] s = "rustc-x86_64-unknown-linux-gnu" -> {"rustc"}
      [] s = "rustc-dev-x86_64-unknown-linux-gnu" -> {"rustc", "rustc-dev"}
      [] s = "rust-analyzer-x86_64-unknown-linux-gnu" -> {"rust-analyzer"}
      [] s = "rustc-dev" -> {"rustc"}
      [] OTHER -> {}
starts_with(s, prefix) == s = prefix \/ prefix \in Prefixes(s)

\* [arch, vendor, os].join("-") over the target records of the configuration
JoinTarget(arc, vendor, os) ==
    CASE <<arc, vendor, os>> = <<"wasm32", "unknown", "unknown">> -> "wasm32-unknown-unknown"
      [] <<arc, vendor, os>> = <<"wasm32", "unknown", "none">> -> "wasm32-unknown-none"
      [] OTHER -> "<other-target>"

RustupTarget(arc, vendor, os) == [isrec |-> TRUE, arch |-> arc, vendor |-> vendor, os |-> os]
TargetValues ==
    {RustupTarget("wasm32", Absent, "unknown"), RustupTarget("wasm32", "unknown", Absent),
     RustupTarget(Absent, Absent, Absent), RustupTarget(WrongType, Absent, Absent),
     RustupTarget("wasm32", WrongType, Absent), RustupTarget("wasm32", Absent, WrongType),
     [isrec |-> FALSE, arch |-> Absent, vendor |-> Absent, os |-> Absent]}

\* parse_target
parse_target(target) ==
    IF ~target.isrec \/ target.arch \in {Absent, WrongType}
       \/ target.vendor = WrongType \/ target.os = WrongType
    THEN [ok |-> FALSE, target |-> None]
    ELSE [ok |-> TRUE,
          target |-> JoinTarget(target.arch,
                                IF target.vendor = Absent THEN "unknown" ELSE target.vendor,
                                IF target.os = Absent THEN "none" ELSE target.os)]

\* parse_components: every element must be a string
parse_components(components) ==
    [ok |-> \A i \in DOMAIN components : components[i] # WrongType, components |-> components]

ComponentValues == {"rust-analyzer", WrongType}
ToolchainValue(components, targets) ==
    [isrec |-> TRUE, components |-> components, targets |-> targets]
ToolchainValues ==
    {ToolchainValue(c, t) :
        c \in {l \in ShortLists(ComponentValues) : l.kind \in {"absent", "list"}},
        t \in {l \in ShortLists(TargetValues) : l.kind = "absent"}}
    \cup {ToolchainValue(c, t) :
        c \in {l \in ShortLists(ComponentValues) : l.kind \in {"absent", "notlist"}},
        t \in ShortLists(TargetValues)}
    \cup {[isrec |-> FALSE, components |-> [kind |-> "absent", items |-> <<>>],
           targets |-> [kind |-> "absent", items |-> <<>>]]}

\* a toolchain given by its name alone; within the bounds the toolchain named
\* in full is written this way
PlainToolchain ==
    ToolchainValue([kind |-> "absent", items |-> <<>>], [kind |-> "absent", items |-> <<>>])

NoToolchainSpec == [targets |-> <<>>, components |-> <<>>]

\* value_to_toolchainspec
value_to_toolchainspec(value) ==
    LET components == IF value.components.kind = "absent" THEN [ok |-> TRUE, components |-> <<>>]
                      ELSE parse_components(value.components.items)
        targets == [i \in DOMAIN value.targets.items |-> parse_target(value.targets.items[i])]
    IN IF \/ ~value.isrec
          \/ value.components.kind = "notlist" \/ ~components.ok
          \/ value.targets.kind = "notlist" \/ \E i \in DOMAIN targets : ~targets[i].ok
       THEN [ok |-> FALSE, spec |-> NoToolchainSpec]
       ELSE [ok |-> TRUE,
             spec |-> [targets |-> [i \in DOMAIN targets |-> targets[i].target],
                       components |-> components.components]]

NoRustup == [toolchains |-> <<>>]

\* the `toolchains' key of the Rustup table: absent, not a record, or a record
\* giving a value to some of the toolchain names
RustupValues ==
    {[kind |-> k, toolchains |-> <<>>] : k \in {"absent", "notrecord"}}
    \cup {[kind |-> "record", toolchains |-> [n \in N |-> v[n]]] :
            N \in SUBSET Range(ToolchainNames),
            v \in {w \in [Range(ToolchainNames) -> ToolchainValues] :
                     w["stable-x86_64-unknown-linux-gnu"] = PlainToolchain}}

\* Rustup::new with values_to_pkgspec
Rustup_new(value) ==
    IF value.kind # "record" THEN [ok |-> FALSE, self |-> NoRustup]
    ELSE LET parsed == [n \in DOMAIN value.toolchains |->
                            value_to_toolchainspec(value.toolchains[n])]
         IN IF \E n \in DOMAIN parsed : ~parsed[n].ok THEN [ok |-> FALSE, self |-> NoRustup]
            ELSE [ok |-> TRUE, self |-> [toolchains |-> [n \in DOMAIN parsed |-> parsed[n].spec]]]

\* get_installed_toolchains: the first token of each line
get_installed_toolchains(lines) == [i \in DOMAIN lines |-> FirstToken(lines[i])]

\* what the rustup probes return: the toolchain list, and the targets and
\* components reported for a toolchain; failed is the position of the
\* handler's step that fails (0: none does)
RustupEnvs ==
    {[kind |-> "rustup", failed |-> 0,
      lines |-> SelectSeq(ToolchainLines, LAMBDA l : l \in T),
      toolchains |-> get_installed_toolchains(SelectSeq(ToolchainLines, LAMBDA l : l \in T)),
      targets |-> SelectSeq(TargetLines, LAMBDA l : l \in G),
      components |-> SelectSeq(ComponentLines, LAMBDA l : l \in C)] :
        T \in SUBSET Range(ToolchainLines), G \in SUBSET Range(TargetLines),
        C \in SUBSET Range(ComponentLines)}

\* self.toolchains.keys(), in the order the map iterates
ToolchainKeys(self) == SelectSeq(ToolchainNames, LAMBDA n : n \in DOMAIN self.toolchains)

\* keys().find(|configured| toolchain.starts_with(configured)) over the installed
\* toolchains: the configured names that are present
present_toolchains(self, env) ==
    LET keys == ToolchainKeys(self)
        hit == SelectSeq(env.toolchains,
                         LAMBDA l : \E i \in DOMAIN keys : starts_with(l, keys[i]))
    IN [i \in DOMAIN hit |->
          keys[CHOOSE k \in DOMAIN keys :
                 /\ starts_with(hit[i], keys[k])
                 /\ \A j \in 1..(k - 1) : ~starts_with(hit[i], keys[j])]]

\* install_missing_toolchain
install_missing_toolchain(toolchain, spec) ==
    LET components == IF spec.components = <<>> THEN <<>>
                      ELSE <<"--component">> \o spec.components
        targets == IF spec.targets = <<>> THEN <<>> ELSE <<"--target">> \o spec.targets
    IN RunStep("toolchain-install",
               <<"rustup", "toolchain", "install">> \o components \o targets,
               spec.components \o spec.targets, <<>>)

\* Rustup::install_toolchains
install_toolchains(self, env) ==
    LET missing == SelectSeq(ToolchainKeys(self),
                     LAMBDA t : ~\E i \in DOMAIN env.toolchains :
                                     starts_with(env.toolchains[i], t))
    IN [i \in DOMAIN missing |->
          install_missing_toolchain(missing[i], self.toolchains[missing[i]])]

\* install_missing_targets
install_missing_targets(toolchain, configured_targets, env) ==
    LET missing_targets == SelectSeq(configured_targets, LAMBDA t : t \notin Range(env.targets))
    IN <<ProbeStep>> \o
       (IF missing_targets = <<>> THEN <<>>
        ELSE <<RunStep("target-add",
                       <<"rustup", "target", "add", "--toolchain", toolchain>>
                           \o missing_targets,
                       missing_targets, <<>>)>>)

\* install_missing_components
install_missing_components(toolchain, configured_components, env) ==
    LET missing_components ==
            SelectSeq(configured_components \o DEFAULT_COMPONENTS,
                      LAMBDA c : ~\E i \in DOMAIN env.components :
                                     starts_with(env.components[i], c))
    IN <<ProbeStep>> \o
       (IF missing_components = <<>> THEN <<>>
        ELSE <<RunStep("component-add",
                       <<"rustup", "component", "add", "--toolchain", toolchain>>
                           \o missing_components,
                       missing_components, <<>>)>>)

\* Rustup::install_missing
install_missing(self, env) ==
    LET present == present_toolchains(self, env)
    IN Flatten([i \in DOMAIN present |->
                  install_missing_targets(present[i], self.toolchains[present[i]].targets, env)
                  \o install_missing_components(present[i],
                                                self.toolchains[present[i]].components, env)])

RustupInstallPlan(self, env) ==
    <<ProbeStep>> \o install_toolchains(self, env) \o install_missing(self, env)

\* Rustup::install
Rustup_install(self, o, env, fail) ==
    LET done == DoSteps(RustupInstallPlan(self, env), o.dry_run, fail)
    IN [events |-> done.ev, result |-> IF done.ok THEN "Ok" ELSE "Err"]

\* Rustup::remove_toolchains
remove_toolchains(self, env) ==
    LET keys == ToolchainKeys(self)
        extra_toolchains ==
            SelectSeq(env.toolchains,
                      LAMBDA l : ~\E i \in DOMAIN keys : starts_with(l, keys[i]))
    IN IF extra_toolchains = <<>> THEN <<>>
       ELSE <<ActionStep("toolchain-remove",
                         <<"rustup", "toolchain", "remove">> \o extra_toolchains,
                         extra_toolchains)>>

\* remove_extra_targets
remove_extra_targets(toolchain, configured_targets, env) ==
    LET extra_targets == SelectSeq(env.targets, LAMBDA t : t \notin Range(configured_targets))
    IN <<ProbeStep>> \o
       (IF extra_targets = <<>> THEN <<>>
        ELSE <<ActionStep("target-remove",
                          <<"rustup", "target", "remove", "--toolchain", toolchain>>
                              \o extra_targets,
                          extra_targets)>>)

\* remove_extra_components
remove_extra_components(toolchain, configured_components, env) ==
    LET wanted == configured_components \o DEFAULT_COMPONENTS
        extra_components ==
            SelectSeq(env.components,
                      LAMBDA c : ~\E i \in DOMAIN wanted : starts_with(c, wanted[i]))
    IN <<ProbeStep>> \o
       (IF extra_components = <<>> THEN <<>>
        ELSE <<ActionStep("component-remove",
                          <<"rustup", "component", "remove", "--toolchain", toolchain>>
                              \o extra_components,
                          extra_components)>>)

\* Rustup::remove_extra
remove_extra(self, env) ==
    LET present == present_toolchains(self, env)
    IN Flatten([i \in DOMAIN present |->
                  remove_extra_targets(present[i], self.toolchains[present[i]].targets, env)
                  \o remove_extra_components(present[i],
                                             self.toolchains[present[i]].components, env)])

RustupRemovePlan(self, env) ==
    <<ProbeStep>> \o remove_toolchains(self, env) \o remove_extra(self, env)

\* Rustup::remove
Rustup_remove(self, o, env, fail) ==
    LET done == DoSteps(RustupRemovePlan(self, env), o.dry_run, fail)
    IN [events |-> done.ev, result |-> IF done.ok THEN "Ok" ELSE "Err"]

----------------------------------------------------------------------------
(* main.rs and backends/mod.rs: one run over the backends *)

\* parse_all_backends!: the order in which the backends are parsed and run
BackendOrder == <<"Arch", "Flatpak", "Cargo", "Rustup">>

\* the sub-record of the package spec under a backend's name: no such key, a
\* value that is not a record, a record the backend's new rejects ("bad"), a
\* record it accepts ("good")
SubRecords == {"absent", "notrecord", "bad", "good"}

SubCommands == {"sync", "clean"}

NoMain ==
    [pc |-> "idle", subcommand |-> "-", value |-> <<>>, backends |-> <<>>, next |-> 0,
     attempted |-> <<>>, ran |-> <<>>, failures |-> <<>>, reported |-> <<>>,
     status |-> "-"]

\* backend_parse!: the array of Option<Backends> is built element by element;
\* an absent key or a non-record gives None, `?' on the Err of new leaves main.
\* Returns the backends built, the names whose new was called, and the name
\* whose new failed ("-": none).
RECURSIVE backend_parse(_, _, _, _)
backend_parse(value, i, built, called) ==
    IF i > Len(BackendOrder) THEN [backends |-> built, called |-> called, failed |-> "-"]
    ELSE LET b == BackendOrder[i] IN
         IF value[b] \in {"absent", "notrecord"}
         THEN backend_parse(value, i + 1, Append(built, "None"), called)
         ELSE IF value[b] = "bad"
              THEN [backends |-> built, called |-> Append(called, b), failed |-> b]
         ELSE backend_parse(value, i + 1, Append(built, b), Append(called, b))

\* the next element of backends.iter_mut().map(..).flatten() at or after i
\* (Len + 1: the iterator is exhausted)
NextSome(backends, i) ==
    IF \E k \in i..Len(backends) : backends[k] # "None"
    THEN CHOOSE k \in i..Len(backends) :
           backends[k] # "None" /\ \A j \in i..(k - 1) : backends[j] = "None"
    ELSE Len(backends) + 1

----------------------------------------------------------------------------
(* backends/cargo/mod.rs: the binstall log decoder *)

\* the longest log, in pieces
MaxChunks == 3

\* A log is a sequence of bytes.  "a" and "b" each stand for the members
\* "name":"a","bins":["a"] of an object, "1" for a JSON value that is not an
\* object, "nl" for a line feed, "x" for a byte that starts no JSON token.
\* The logs tried are made of these pieces: compact objects, an object
\* written over two lines, an object with no name, and broken input.
Chunks ==
    {<<"{", "a", "}">>, <<"{", "b", "}">>, <<"{", "nl", "a", "}">>, <<"{", "}">>,
     <<"nl">>, <<"1">>, <<"x">>, <<"{">>}

IsObject(chunk) ==
    chunk \in {<<"{", "a", "}">>, <<"{", "b", "}">>, <<"{", "nl", "a", "}">>}

\* the first position at or after i that holds no white space (Len + 1: none)
SkipWs(buf, i) ==
    IF \E k \in i..Len(buf) : buf[k] # "nl"
    THEN CHOOSE k \in i..Len(buf) : buf[k] # "nl" /\ \A j \in i..(k - 1) : buf[j] = "nl"
    ELSE Len(buf) + 1

\* serde_json's Position of the first n bytes: the column is the number of
\* bytes since the last line feed among them (0 right after a line feed)
Column(buf, n) ==
    LET nls == {k \in 1..n : buf[k] = "nl"}
    IN n - (IF nls = {} THEN 0 ELSE CHOOSE k \in nls : \A j \in nls : j <= k)

JsonErr(buf, n) == [ok |-> FALSE, value |-> "-", column |-> Column(buf, n)]
JsonOk(v) == [ok |-> TRUE, value |-> v, column |-> 0]

\* serde_json::from_str: one value, white space around it, nothing after it.
\* An error is reported at the offending byte (counted in), or at the end of
\* the input.  The value is "1" for a scalar, "{}" for an object without
\* members, or the name of the object.
from_str(buf) ==
    LET n == Len(buf)
        at(k) == JsonErr(buf, IF k > n THEN n ELSE k)
        i1 == SkipWs(buf, 1)
        i2 == SkipWs(buf, i1 + 1)
        i3 == SkipWs(buf, i2 + 1)
        end(v, next) == IF SkipWs(buf, next) > n THEN JsonOk(v)
                        ELSE at(SkipWs(buf, next))
    IN IF i1 > n THEN at(i1)
       ELSE IF buf[i1] = "1" THEN end("1", i1 + 1)
       ELSE IF buf[i1] # "{" THEN at(i1)
       ELSE IF i2 > n THEN at(i2)
       ELSE IF buf[i2] = "}" THEN end("{}", i2 + 1)
       ELSE IF buf[i2] \notin {"a", "b"} THEN at(i2)
       ELSE IF i3 > n THEN at(i3)
       ELSE IF buf[i3] # "}" THEN at(i3)
       ELSE end(buf[i2], i3 + 1)

\* parse_binstall_cratespec: (name, bins, remaining), an Err, or a panic
\* (e.column() - 1 with column 0 overflows; wrapped, it is no index of the str)
parse_binstall_cratespec(cratespec) ==
    LET whole == from_str(cratespec)
        index == whole.column - 1
        segment == SubSeq(cratespec, 1, index)
        first == from_str(segment)
        pkg == IF whole.ok THEN whole.value ELSE first.value
        remaining == IF whole.ok THEN <<>>
                     ELSE SubSeq(cratespec, index + 1, Len(cratespec))
    IN IF ~whole.ok /\ whole.column = 0
       THEN [status |-> "panic", name |-> "-", bins |-> <<>>, remaining |-> cratespec,
             index |-> -1]
       ELSE IF ~whole.ok /\ ~first.ok
       THEN [status |-> "Err", name |-> "-", bins |-> <<>>, remaining |-> cratespec,
             index |-> index]
       ELSE IF pkg \in {"1", "{}"}
       THEN [status |-> "Err", name |-> "-", bins |-> <<>>, remaining |-> cratespec,
             index |-> IF whole.ok THEN Len(cratespec) ELSE index]
       ELSE [status |-> "Ok", name |-> pkg, bins |-> <<pkg>>, remaining |-> remaining,
             index |-> IF whole.ok THEN Len(cratespec) ELSE index]

NoDecoder ==
    [pc |-> "idle", chunks |-> <<>>, cratespec |-> <<>>, records |-> <<>>,
     pkgspec |-> {}, before |-> 0, index |-> 0, status |-> "-"]

----------------------------------------------------------------------------
(* The state machine *)

Opts == [dry_run : BOOLEAN, no_confirm : BOOLEAN]
ProbeFailed == [kind |-> "failed"]

\* the exit statuses a command may report: a printed command reports nothing
Exits(o) == IF o.dry_run THEN {TRUE} ELSE BOOLEAN

Init ==
    /\ backend = "none"
    /\ op = "none"
    /\ result = "none"
    /\ new_value = NoValue
    /\ arch = NoArch
    /\ cargo = NoCargo
    /\ flatpak = NoFlatpak
    /\ rustup = NoRustup
    /\ opts = NoOpts
    /\ probed = NoProbe
    /\ events = <<>>
    /\ main = NoMain
    /\ decoder = NoDecoder

\* a handler's call leaves its options, what it probed, its commands and hooks
Handled(o, env, name, r) ==
    /\ op' = name
    /\ opts' = o
    /\ probed' = env
    /\ events' = r.events
    /\ result' = r.result
    /\ new_value' = NoValue

\* a handler whose probe (a query command) fails returns Err before any command
ProbeFails(name) ==
    \E o \in Opts : Handled(o, ProbeFailed, name, [events |-> <<>>, result |-> "Err"])

Ready(b) == backend = b /\ op = "new" /\ result = "Ok"

ArchNew ==
    /\ backend = "none" /\ main = NoMain /\ decoder = NoDecoder
    /\ \E value \in PackageLists(ArchEntries), config \in PackageManagerValues :
         LET r == Arch_new(value, config) IN
         \* the longer lists are tried with one package manager only
         /\ Len(value.items) <= 1 \/ config = "pacman"
         /\ backend' = "Arch"
         /\ op' = "new"
         /\ result' = IF r.ok THEN "Ok" ELSE "Err"
         /\ new_value' = [kind |-> "arch", packages |-> value, config |-> config]
         /\ arch' = r.self
    /\ UNCHANGED <<cargo, flatpak, rustup, opts, probed, events, main, decoder>>

ArchInstall ==
    /\ Ready("Arch")
    /\ \/ ProbeFails("sync")
       \/ \E o \in Opts, env \in ArchEnvs :
            \E ord \in Orders(ArchConfiguredPlain(arch, env)), exit1, exit2 \in Exits(o) :
              \E hfail \in IF exit1 /\ exit2
                           THEN 0..Len(ArchClosures(arch, env, ord)) ELSE {0} :
                Handled(o, env, "sync", Arch_install(arch, o, env, ord, exit1, exit2, hfail))
    /\ UNCHANGED <<backend, arch, cargo, flatpak, rustup, main, decoder>>

ArchRemove ==
    /\ Ready("Arch")
    /\ \/ ProbeFails("clean")
       \/ \E o \in Opts, env \in {e \in ArchEnvs : e.deps = {}} :
            \E ord \in Orders(ArchExtra(arch, env)), exit1 \in Exits(o) :
                Handled(o, env, "clean", Arch_remove(arch, o, env, ord, exit1))
    /\ UNCHANGED <<backend, arch, cargo, flatpak, rustup, main, decoder>>

ArchCleanCache ==
    /\ Ready("Arch")
    /\ \E o \in Opts, env \in ArchUnusedEnvs :
         \E exit1 \in Exits(o) :
         Handled(o, env, "clean_cache", Arch_clean_cache(arch, o, env, exit1))
    /\ UNCHANGED <<backend, arch, cargo, flatpak, rustup, main, decoder>>

CargoNew ==
    /\ backend = "none" /\ main = NoMain /\ decoder = NoDecoder
    /\ \E value \in PackageLists(CargoEntries)
                      \cup {[kind |-> "list", items |-> <<e>>] : e \in CargoFeatureEntries},
          config \in BinstallValues :
         LET r == Cargo_new(value, config) IN
         /\ backend' = "Cargo"
         /\ op' = "new"
         /\ result' = IF r.ok THEN "Ok" ELSE "Err"
         /\ new_value' = [kind |-> "cargo", packages |-> value, config |-> config]
         /\ cargo' = r.self
    /\ UNCHANGED <<arch, flatpak, rustup, opts, probed, events, main, decoder>>

\* the exit status of a command matters only when it is spawned
FailAt(o, n) == IF o.dry_run THEN {0} ELSE 0..n

CargoInstall ==
    /\ Ready("Cargo")
    /\ \/ ProbeFails("sync")
       \/ \E o \in Opts, files \in CargoFiles(cargo.installopt) :
            \E answer \in Answers(o) :
              LET env == CargoEnv(files, answer) IN
              \E ord \in Orders(CargoMissing(cargo, env)) :
                \E cfail \in FailAt(o, Len(ord)) :
                  \E hfail \in IF cfail = 0 THEN 0..Len(ord) ELSE {0} :
                    Handled(o, env, "sync", Cargo_install(cargo, o, env, ord, cfail, hfail))
    /\ UNCHANGED <<backend, arch, cargo, flatpak, rustup, main, decoder>>

CargoRemove ==
    /\ Ready("Cargo")
    /\ \/ ProbeFails("clean")
       \/ \E o \in Opts, files \in CargoFiles(cargo.installopt) :
            \E answer \in Answers(o) :
              LET env == CargoEnv(files, answer) IN
              \E ord \in Orders(CargoExtra(cargo, env)) :
                \E cfail \in FailAt(o, Len(ord)) :
                    Handled(o, env, "clean", Cargo_remove(cargo, o, env, ord, cfail))
    /\ UNCHANGED <<backend, arch, cargo, flatpak, rustup, main, decoder>>

FlatpakNew ==
    /\ backend = "none" /\ main = NoMain /\ decoder = NoDecoder
    /\ \E remotes \in ShortLists(RemoteEntries) \cup PairLists(RemoteEntries),
          pinned \in ShortLists(FlatpakPinEntries) \cup PairLists(PairedPinEntries),
          packages \in ShortLists(FlatpakPkgEntries), config \in SystemwideValues :
         LET value == [remotes |-> remotes, pinned |-> pinned, packages |-> packages]
             r == Flatpak_new(value, config) IN
         \* the remotes and the lists of two pins are tried one at a time, with
         \* the default configuration and a package list without faults
         /\ (remotes.kind # "absent" \/ Len(pinned.items) = 2) =>
              /\ config = Absent
              /\ remotes.kind = "absent" \/ pinned.kind = "absent"
              /\ packages \in {[kind |-> "list", items |-> <<>>],
                               [kind |-> "list",
                                items |-> <<FlatpakPkgEntry("app", Absent, Absent, Absent)>>]}
         /\ backend' = "Flatpak"
         /\ op' = "new"
         /\ result' = IF r.ok THEN "Ok" ELSE "Err"
         /\ new_value' = [kind |-> "flatpak", remotes |-> remotes, pinned |-> pinned,
                          packages |-> packages, config |-> config]
         /\ flatpak' = r.self
    /\ UNCHANGED <<arch, cargo, rustup, opts, probed, events, main, decoder>>

\* the Flatpak handlers read only the dry-run flag of their options
FlatpakOpts == {o \in Opts : ~o.no_confirm}

FlatpakInstall ==
    /\ Ready("Flatpak")
    /\ \E o \in FlatpakOpts, env \in FlatpakEnvs :
         LET plan == FlatpakInstallPlan(flatpak, env) IN
         \E fail \in 0..Len(plan.steps) :
           \E hfail \in IF fail = 0 THEN 0..Len(plan.closures) ELSE {0} :
             Handled(o, [env EXCEPT !.failed = fail], "sync",
                     Flatpak_install(flatpak, o, env, fail, hfail))
    /\ UNCHANGED <<backend, arch, cargo, flatpak, rustup, main, decoder>>

FlatpakRemove ==
    /\ Ready("Flatpak")
    /\ \E o \in FlatpakOpts, env \in FlatpakEnvs :
         \E fail \in 0..Len(FlatpakRemovePlan(flatpak, env)) :
             Handled(o, [env EXCEPT !.failed = fail], "clean",
                     Flatpak_remove(flatpak, o, env, fail))
    /\ UNCHANGED <<backend, arch, cargo, flatpak, rustup, main, decoder>>

RustupNew ==
    /\ backend = "none" /\ main = NoMain /\ decoder = NoDecoder
    /\ \E value \in RustupValues :
         LET r == Rustup_new(value) IN
         /\ backend' = "Rustup"
         /\ op' = "new"
         /\ result' = IF r.ok THEN "Ok" ELSE "Err"
         /\ new_value' = [kind |-> "rustup", value |-> value]
         /\ rustup' = r.self
    /\ UNCHANGED <<arch, cargo, flatpak, opts, probed, events, main, decoder>>

RustupInstall ==
    /\ Ready("Rustup")
    /\ \E o \in FlatpakOpts, env \in RustupEnvs :
         \E fail \in 0..Len(RustupInstallPlan(rustup, env)) :
             Handled(o, [env EXCEPT !.failed = fail], "sync",
                     Rustup_install(rustup, o, env, fail))
    /\ UNCHANGED <<backend, arch, cargo, flatpak, rustup, main, decoder>>

RustupRemove ==
    /\ Ready("Rustup")
    /\ \E o \in FlatpakOpts, env \in RustupEnvs :
         \E fail \in 0..Len(RustupRemovePlan(rustup, env)) :
             Handled(o, [env EXCEPT !.failed = fail], "clean",
                     Rustup_remove(rustup, o, env, fail))
    /\ UNCHANGED <<backend, arch, cargo, flatpak, rustup, main, decoder>>

\* main, lines 78-151: the package spec is read and the backends are parsed
MainParse ==
    /\ backend = "none" /\ op = "none" /\ main = NoMain /\ decoder = NoDecoder
    /\ \E value \in [Range(BackendOrder) -> SubRecords], subcommand \in SubCommands :
         LET r == backend_parse(value, 1, <<>>, <<>>) IN
         main' = IF r.failed # "-"
                 THEN [NoMain EXCEPT !.pc = "done", !.subcommand = subcommand,
                                     !.value = value, !.attempted = r.called,
                                     !.failures = <<r.failed>>, !.reported = <<r.failed>>,
                                     !.status = "Err"]
                 ELSE [NoMain EXCEPT !.pc = "running", !.subcommand = subcommand,
                                     !.value = value, !.backends = r.backends,
                                     !.next = NextSome(r.backends, 1),
                                     !.attempted = r.called]
    /\ UNCHANGED <<backend, op, result, new_value, arch, cargo, flatpak, rustup, opts,
                   probed, events, decoder>>

\* main, lines 153-167: collect pulls the next backend and runs its install or
\* remove; r is the Result of that call, the first Err ends the collect
MainStep ==
    /\ main.pc = "running" /\ main.next <= Len(main.backends)
    /\ \E r \in {"Ok", "Err"} :
         main' = IF r = "Err"
                 THEN [main EXCEPT !.pc = "done", !.status = "Err",
                                   !.ran = Append(@, main.backends[main.next]),
                                   !.failures = Append(@, main.backends[main.next]),
                                   !.reported = Append(@, main.backends[main.next])]
                 ELSE [main EXCEPT !.ran = Append(@, main.backends[main.next]),
                                   !.next = NextSome(main.backends, main.next + 1)]
    /\ UNCHANGED <<backend, op, result, new_value, arch, cargo, flatpak, rustup, opts,
                   probed, events, decoder>>

\* main, lines 167-173: the iterator is exhausted, collect returns Ok(())
MainDone ==
    /\ main.pc = "running" /\ main.next > Len(main.backends)
    /\ main' = [main EXCEPT !.pc = "done", !.status = "Ok"]
    /\ UNCHANGED <<backend, op, result, new_value, arch, cargo, flatpak, rustup, opts,
                   probed, events, decoder>>

\* main has returned
MainExit ==
    /\ main.pc = "done"
    /\ main' = NoMain
    /\ UNCHANGED <<backend, op, result, new_value, arch, cargo, flatpak, rustup, opts,
                   probed, events, decoder>>

\* get_installed_packages_binary is called with the contents of the log
DecoderStart ==
    /\ backend = "none" /\ op = "none" /\ main = NoMain /\ decoder = NoDecoder
    /\ \E chunks \in SeqsUpTo(Chunks, MaxChunks) :
         decoder' = [NoDecoder EXCEPT !.pc = "loop", !.chunks = chunks,
                                      !.cratespec = Flatten(chunks)]
    /\ UNCHANGED <<backend, op, result, new_value, arch, cargo, flatpak, rustup, opts,
                   probed, events, main>>

\* one iteration of `while !cratespec.is_empty()'
DecoderStep ==
    /\ decoder.pc = "loop" /\ decoder.cratespec # <<>>
    /\ LET r == parse_binstall_cratespec(decoder.cratespec) IN
       decoder' =
           IF r.status # "Ok"
           THEN [decoder EXCEPT !.pc = "done", !.status = r.status,
                                !.before = Len(decoder.cratespec), !.index = r.index]
           ELSE [decoder EXCEPT
                   !.cratespec = r.remaining,
                   !.records = Append(@, [name |-> r.name, bins |-> r.bins]),
                   !.pkgspec = {e \in @ : e.name # r.name}
                                   \cup {[name |-> r.name, bins |-> r.bins]},
                   !.before = Len(decoder.cratespec), !.index = r.index]
    /\ UNCHANGED <<backend, op, result, new_value, arch, cargo, flatpak, rustup, opts,
                   probed, events, main>>

\* the buffer is empty: the loop ends and the records are handed on
DecoderDone ==
    /\ decoder.pc = "loop" /\ decoder.cratespec = <<>>
    /\ decoder' = [decoder EXCEPT !.pc = "done", !.status = "Ok"]
    /\ UNCHANGED <<backend, op, result, new_value, arch, cargo, flatpak, rustup, opts,
                   probed, events, main>>

DecoderExit ==
    /\ decoder.pc = "done"
    /\ decoder' = NoDecoder
    /\ UNCHANGED <<backend, op, result, new_value, arch, cargo, flatpak, rustup, opts,
                   probed, events, main>>

\* the argument lists run_command is tried with on its own
CommandArgs == {<<>>, <<"true">>, <<"pacman", "--sync", "a">>}

\* run_command called with an argument list and a permission level
RunCommand ==
    /\ backend = "none" /\ op = "none" /\ main = NoMain /\ decoder = NoDecoder
    /\ \E args \in CommandArgs, perms \in {"User", "Root"}, exited \in BOOLEAN :
         LET r == run_command("command", args, <<>>, perms, exited) IN
         /\ backend' = "commands"
         /\ op' = "command"
         /\ new_value' = [kind |-> "command", args |-> args, perms |-> perms]
         /\ events' = r.ev
         /\ result' = IF r.ok THEN "Ok" ELSE "Err"
    /\ UNCHANGED <<arch, cargo, flatpak, rustup, opts, probed, main, decoder>>

\* the process ends
Exit ==
    /\ op # "none"
    /\ backend' = "none"
    /\ op' = "none"
    /\ result' = "none"
    /\ new_value' = NoValue
    /\ arch' = NoArch
    /\ cargo' = NoCargo
    /\ flatpak' = NoFlatpak
    /\ rustup' = NoRustup
    /\ opts' = NoOpts
    /\ probed' = NoProbe
    /\ events' = <<>>
    /\ main' = NoMain
    /\ decoder' = NoDecoder

Next ==
    \/ ArchNew
    \/ ArchInstall
    \/ ArchRemove
    \/ ArchCleanCache
    \/ CargoNew
    \/ CargoInstall
    \/ CargoRemove
    \/ FlatpakNew
    \/ FlatpakInstall
    \/ FlatpakRemove
    \/ RustupNew
    \/ RustupInstall
    \/ RustupRemove
    \/ Exit
    \/ MainParse
    \/ MainStep
    \/ MainDone
    \/ MainExit
    \/ DecoderStart
    \/ DecoderStep
    \/ DecoderDone
    \/ DecoderExit
    \/ RunCommand

Spec == Init /\ [][Next]_vars

----------------------------------------------------------------------------
(* Reading the event log *)

CmdIdx == {i \in DOMAIN events : events[i].type = "cmd"}
HookIdx == {i \in DOMAIN events : events[i].type = "hook"}
ExecutedHooks == {i \in HookIdx : events[i].mode = "exec"}

InstallKinds == {"install", "promote", "pin", "toolchain-install", "target-add", "component-add"}
RemoveKinds == {"remove", "unpin", "toolchain-remove", "target-remove", "component-remove"}

\* the names carried by the commands of the given kinds
ItemsOf(kinds) ==
    UNION {Range(events[i].items) : i \in {j \in CmdIdx : events[j].kind \in kinds}}

\* the handler's probes all answered
Probed == probed.kind \in {"arch", "cargo", "flatpak", "rustup"}
\* ... and none of its steps failed
NothingFailed ==
    /\ Probed
    /\ probed.kind \in {"flatpak", "rustup"} => probed.failed = 0
    /\ \A i \in DOMAIN events : events[i].ok

\* the members the group query reports for the configured groups
ArchMembers == Range(Flatten(ArchGroupPackages(arch, probed)))

\* the computed install list and the computed remove list are empty
ToInstallEmpty ==
    CASE probed.kind = "arch" ->
           (ArchConfiguredPlain(arch, probed) \cup ArchMembers) \subseteq probed.explicit
      [] probed.kind = "cargo" -> CargoMissing(cargo, probed) = {}
      [] probed.kind = "flatpak" ->
           \A sw \in BOOLEAN :
             /\ missing_pins(flatpak, probed, sw) = <<>>
             /\ DOMAIN configured_packages(flatpak, sw) \subseteq ScopeEnv(probed, sw).installed
      [] probed.kind = "rustup" ->
           \A i \in DOMAIN RustupInstallPlan(rustup, probed) :
             RustupInstallPlan(rustup, probed)[i].t = "probe"
      [] OTHER -> FALSE

ToRemoveEmpty ==
    CASE probed.kind = "arch" -> ArchExtra(arch, probed) = {}
      [] probed.kind = "cargo" -> CargoExtra(cargo, probed) = {}
      [] probed.kind = "flatpak" ->
           \A sw \in BOOLEAN :
             /\ \A i \in DOMAIN ScopeEnv(probed, sw).pins :
                  parse_runtime_format(ScopeEnv(probed, sw).pins[i], FALSE).runtime
                      \in DOMAIN configured_pins(flatpak, sw)
             /\ (ScopeEnv(probed, sw).installed \cap FlatpakApps)
                    \subseteq DOMAIN configured_packages(flatpak, sw)
      [] probed.kind = "rustup" ->
           \A i \in DOMAIN RustupRemovePlan(rustup, probed) :
             RustupRemovePlan(rustup, probed)[i].t = "probe"
      [] OTHER -> FALSE

----------------------------------------------------------------------------
(* The claims *)

\* C1: in every backend's sync and clean pass whose probes answered, when the
\* computed install list and the computed remove list are both empty the pass
\* issues no command at all, executed or printed, and returns Ok.
C1_IdleIssuesNothing ==
    (op \in {"sync", "clean"} /\ NothingFailed /\ ToInstallEmpty /\ ToRemoveEmpty)
        => (CmdIdx = {} /\ result = "Ok")

\* C2: every install, promote and remove command the Arch backend issues in
\* sync, clean or clean_cache carries at least one package name.
C2_ArchCommandsCarryNames ==
    (backend = "Arch" /\ op \in {"sync", "clean", "clean_cache"})
        => \A i \in CmdIdx : events[i].items # <<>>

\* the hook's item was installed when the pass began
AlreadyInstalled(h) ==
    CASE probed.kind = "arch" ->
           IF h.name \in Range(ArchConfiguredGroups(arch, probed))
           THEN Range(probed.members[h.name]) \subseteq probed.explicit
           ELSE h.name \in probed.explicit
      [] probed.kind = "cargo" -> h.name \in Cargo_get_installed_packages(cargo, probed)
      [] probed.kind = "flatpak" ->
           CASE h.table = "user_packages" -> h.name \in probed.user.installed
             [] h.table = "system_packages" -> h.name \in probed.system.installed
             [] h.table = "user_pinned" -> h.name \in installed_pins(probed, FALSE)
             [] h.table = "system_pinned" -> h.name \in installed_pins(probed, TRUE)
             [] OTHER -> FALSE
      [] OTHER -> FALSE

\* the command at position j was spawned, succeeded and installs the hook's item
Covers(j, h) ==
    /\ events[j].type = "cmd" /\ events[j].mode = "run" /\ events[j].ok
    /\ events[j].kind \in {"install", "promote"}
    /\ CASE probed.kind = "arch" ->
              IF h.name \in Range(ArchConfiguredGroups(arch, probed))
              THEN \E m \in Range(probed.members[h.name]) : m \in Range(events[j].items)
              ELSE h.name \in Range(events[j].items)
         [] probed.kind = "cargo" -> h.name \in Range(events[j].items)
         [] probed.kind = "flatpak" ->
              /\ h.name \in Range(events[j].items)
              /\ events[j].argv[3] =
                     ScopeFlag(h.table \in {"system_packages", "system_pinned"})
         [] OTHER -> FALSE

\* C3: in a sync pass a hook is executed only after an install command that
\* covers the hook's item has been spawned and has returned success.
C3_HookAfterItsInstall ==
    (op = "sync" /\ Probed)
        => \A i \in ExecutedHooks : \E j \in 1..(i - 1) : Covers(j, events[i].id)

\* C4: in a sync pass no hook is executed for an item that was installed when
\* the pass began: a plain package in the installed set, or a configured group
\* all of whose members were explicitly installed.
C4_NoHookForInstalledItem ==
    (op = "sync" /\ Probed)
        => \A i \in ExecutedHooks : ~AlreadyInstalled(events[i].id)

\* the hooks held by the backend objects after parsing
ParsedHooks ==
    {arch.packages[n] : n \in DOMAIN arch.packages}
    \cup {cargo.packages[n].post_hook : n \in DOMAIN cargo.packages}
    \cup UNION {{t[n].post_hook : n \in DOMAIN t} :
                   t \in {flatpak.user_pinned, flatpak.system_pinned,
                          flatpak.user_packages, flatpak.system_packages}}

\* an entry that is well formed, its post_hook being absent or any closure
EntryOk(e, names) ==
    e.isrec /\ e.package \in names /\ e.post_hook \in Closures \cup {Absent}

\* the record new was given is well formed
WellFormedValue ==
    CASE new_value.kind = "arch" ->
           /\ new_value.packages.kind = "list" /\ new_value.config # WrongType
           /\ \A i \in DOMAIN new_value.packages.items :
                EntryOk(new_value.packages.items[i], Pkgs)
      [] new_value.kind = "cargo" ->
           /\ new_value.packages.kind = "list" /\ new_value.config # WrongType
           /\ \A i \in DOMAIN new_value.packages.items :
                LET e == new_value.packages.items[i] IN
                /\ EntryOk(e, CargoNames)
                /\ WrongType \notin {e.all_features, e.no_default_features, e.git_remote}
                /\ e.features.kind # "notlist" /\ WrongType \notin Range(e.features.items)
      [] new_value.kind = "flatpak" ->
           /\ new_value.packages.kind = "list" /\ new_value.config # WrongType
           /\ new_value.pinned.kind # "notlist" /\ new_value.remotes.kind # "notlist"
           /\ \A i \in DOMAIN new_value.packages.items :
                LET e == new_value.packages.items[i] IN
                EntryOk(e, FlatpakApps) /\ e.remote # WrongType /\ e.systemwide # WrongType
      [] OTHER -> FALSE

\* C5: an entry whose post_hook is a closure with captures parses successfully
\* with no hook: new succeeds on every record that is well formed but for the
\* captures, no parsed spec holds a capturing closure, none is ever run.
C5_CapturingHookDropped ==
    /\ (op = "new" /\ WellFormedValue) => result = "Ok"
    /\ CapturingClosure \notin ParsedHooks
    /\ \A i \in HookIdx : events[i].id.closure # CapturingClosure

\* what the backend's probes report as installed
RustupUnmatched ==
    {t \in DOMAIN rustup.toolchains :
        ~\E i \in DOMAIN probed.toolchains : starts_with(probed.toolchains[i], t)}

Accepted == probed.answer \in {"yes", "-"} /\ \A i \in CmdIdx : events[i].ok

C8_GroupsExpanded ==
    probed.kind = "arch" =>
      \A g \in Range(ArchConfiguredGroups(arch, probed)) :
        /\ op = "sync" =>
             /\ Range(probed.members[g]) \ probed.explicit
                    \subseteq ItemsOf({"install", "promote"})
             /\ g \in ItemsOf({"install", "promote"}) => g \in ArchMembers
        /\ op = "clean" => ItemsOf({"remove"}) \cap Range(probed.members[g]) = {}

C8_Witness ==
    /\ op = "sync" /\ probed.kind = "arch"
    /\ DOMAIN arch.packages = {"g"} /\ probed.groups = <<"g">>
    /\ probed.members["g"] = <<"a", "b">>
    /\ "a" \in probed.explicit /\ "b" \notin probed.explicit
    /\ "b" \in ItemsOf({"install", "promote"}) /\ "g" \notin ItemsOf({"install", "promote"})

\* C9: in one Arch sync pass no hook is run (or printed) twice.
C9_ArchHookOnce ==
    (backend = "Arch" /\ op = "sync")
        => \A i, j \in HookIdx : events[i].id = events[j].id => i = j

\* C10: with the dry-run flag set, no command of a sync or clean pass is
\* spawned and no hook is executed: each is only printed.
C10_DryRunSpawnsNothing ==
    (op \in {"sync", "clean"} /\ opts.dry_run)
        => \A i \in DOMAIN events : events[i].mode = "dry"

\* s lists names in the order of BackendOrder, each at most once
InBackendOrder(s) ==
    \A i, j \in DOMAIN s :
      i < j => \E k, l \in DOMAIN BackendOrder :
                 k < l /\ BackendOrder[k] = s[i] /\ BackendOrder[l] = s[j]

\* C11: when main returns, the backends were parsed and run in the order Arch,
\* Flatpak, Cargo, Rustup, every backend that has a sub-record was parsed,
\* every backend that parsed was run whatever happened to an earlier one, and
\* every failure met is reported.
C11_FailuresDoNotBlock ==
    main.pc = "done" =>
      /\ InBackendOrder(main.attempted) /\ InBackendOrder(main.ran)
      /\ \A b \in Range(BackendOrder) :
           /\ main.value[b] \in {"good", "bad"} => b \in Range(main.attempted)
           /\ main.value[b] = "good" => b \in Range(main.ran)
           /\ main.value[b] = "bad" => b \in Range(main.reported)
      /\ Range(main.failures) \subseteq Range(main.reported)

\* the (name, bins) record a source object of the log stands for
SourceRecord(chunk) ==
    LET name == IF "a" \in Range(chunk) THEN "a" ELSE "b"
    IN [name |-> name, bins |-> <<name>>]

\* C12: when the log is N valid {name, bins} objects written one after the
\* other with nothing between them, the decoder ends with Ok and has yielded
\* exactly the N records of the source objects, in the order of the log.
C12_DecoderYieldsEachObject ==
    (decoder.pc = "done" /\ \A i \in DOMAIN decoder.chunks : IsObject(decoder.chunks[i]))
      => /\ decoder.status = "Ok"
         /\ decoder.records = [i \in DOMAIN decoder.chunks |-> SourceRecord(decoder.chunks[i])]

\* the same, for logs whose objects are each written on one line
OneLineObjectsDecoded ==
    (decoder.pc = "done"
       /\ \A i \in DOMAIN decoder.chunks :
            IsObject(decoder.chunks[i]) /\ "nl" \notin Range(decoder.chunks[i]))
      => /\ decoder.status = "Ok"
         /\ decoder.records = [i \in DOMAIN decoder.chunks |-> SourceRecord(decoder.chunks[i])]

\* C13: the decoder never panics; an iteration that does not end the loop
\* with an error has split the buffer at an offset between 1 and the length
\* of the buffer and left a strictly shorter buffer.
C13_DecoderTerminates ==
    /\ decoder.status # "panic"
    /\ (decoder.pc = "loop" /\ decoder.before > 0) =>
         /\ decoder.index >= 1 /\ decoder.index <= decoder.before
         /\ Len(decoder.cratespec) < decoder.before

\* the second half of C13 alone
DecoderShortens ==
    (decoder.pc = "loop" /\ decoder.before > 0) =>
         /\ decoder.index >= 1 /\ decoder.index <= decoder.before
         /\ Len(decoder.cratespec) < decoder.before

\* the pin {id: "foo", branch: "stable"} is configured for the installation
\* and the pin list of that installation holds foo/x86_64/stable
FooPinnedIn(systemwide) ==
    /\ backend = "Flatpak" /\ op = "sync" /\ probed.kind = "flatpak"
    /\ "foo" \in DOMAIN configured_pins(flatpak, systemwide)
    /\ configured_pins(flatpak, systemwide)["foo"].branch = "stable"
    /\ configured_pins(flatpak, systemwide)["foo"].arch = None
    /\ <<"foo", "x86_64", "stable">> \in Range(ScopeEnv(probed, systemwide).pins)

\* the `flatpak pin' and `flatpak install' commands of the installation that name foo
FooCommands(systemwide) ==
    {i \in CmdIdx : /\ events[i].kind \in {"pin", "install"}
                    /\ events[i].argv[3] = ScopeFlag(systemwide)
                    /\ "foo" \in Range(events[i].items)}

\* C14: in Flatpak sync, with the pin {id: "foo", branch: "stable"} configured
\* and foo/x86_64/stable in the installed pin list, no `flatpak pin' and no
\* `flatpak install' command is issued for foo.
C14_PinnedNotReissued ==
    \A systemwide \in BOOLEAN : FooPinnedIn(systemwide) => FooCommands(systemwide) = {}

\* C14 where the runtime foo is also listed by `flatpak list': the pin is
\* recognised and no `flatpak pin' or `flatpak install' is issued for foo.
C14_PinnedAndInstalledNotReissued ==
    \A systemwide \in BOOLEAN :
        (FooPinnedIn(systemwide) /\ "foo" \in ScopeEnv(probed, systemwide).installed)
          => FooCommands(systemwide) = {}

C14_Witness ==
    \E systemwide \in BOOLEAN :
        /\ FooPinnedIn(systemwide) /\ "foo" \in ScopeEnv(probed, systemwide).installed
        /\ probed.failed = 0 /\ result = "Ok"
        /\ "foo" \in installed_pins(probed, systemwide)

\* worked by hand from the lines of `rustup toolchain list': the line belongs
\* to the id when its first space-delimited token starts with the id
Belongs(line, id) ==
    /\ line = "stable-x86_64-unknown-linux-gnu (default)"
    /\ id \in {"stable", "stable-x86_64-unknown-linux-gnu"}
LineName(line) ==
    IF line = "stable-x86_64-unknown-linux-gnu (default)"
    THEN "stable-x86_64-unknown-linux-gnu" ELSE line
Orphans == {t \in DOMAIN rustup.toolchains : \A l \in Range(probed.lines) : ~Belongs(l, t)}

\* C15: in a Rustup pass where nothing fails, sync issues one `rustup toolchain
\* install' for each configured id that no installed line belongs to and none
\* for the others, and clean removes exactly the installed toolchains that
\* belong to no configured id; a line belongs to an id iff its first
\* space-delimited token starts with the id.
C15_ToolchainPrefixMatch ==
    (backend = "Rustup" /\ probed.kind = "rustup" /\ NothingFailed) =>
      /\ op = "sync" =>
           Cardinality({i \in CmdIdx : events[i].kind = "toolchain-install"})
             = Cardinality(Orphans)
      /\ op = "clean" =>
           \A l \in Range(probed.lines) :
               LineName(l) \in ItemsOf({"toolchain-remove"})
                 <=> \A t \in DOMAIN rustup.toolchains : ~Belongs(l, t)

\* "stable-x86_64-unknown-linux-gnu (default)" is installed; a sync with stable
\* and nightly configured installed one toolchain, or a clean with only
\* nightly configured removed the stable toolchain
C15_Witness ==
    /\ backend = "Rustup" /\ probed.kind = "rustup" /\ NothingFailed
    /\ "stable-x86_64-unknown-linux-gnu (default)" \in Range(probed.lines)
    /\ \/ /\ op = "sync" /\ DOMAIN rustup.toolchains = {"stable", "nightly"}
          /\ Cardinality({i \in CmdIdx : events[i].kind = "toolchain-install"}) = 1
       \/ /\ op = "clean" /\ DOMAIN rustup.toolchains = {"nightly"}
          /\ "stable-x86_64-unknown-linux-gnu" \in ItemsOf({"toolchain-remove"})

\* an entry of a packages list that is well formed
PackageEntryOk(e) ==
    CASE new_value.kind = "arch" -> EntryOk(e, Pkgs)
      [] new_value.kind = "cargo" -> EntryOk(e, CargoNames)
      [] new_value.kind = "flatpak" ->
           EntryOk(e, FlatpakApps) /\ e.remote # WrongType /\ e.systemwide # WrongType
      [] OTHER -> FALSE

\* an entry of the pinned list, of the remotes list, that is well formed
PinEntryOk(e) ==
    /\ EntryOk(e, FlatpakRuntimes)
    /\ e.branch # WrongType /\ e.arch # WrongType /\ e.systemwide # WrongType
RemoteEntryOk(e) ==
    e.isrec /\ e.package \notin {Absent, WrongType} /\ e.url \notin {Absent, WrongType}

\* the last entry of the list that is well formed and carries the name
LastOf(items, ok(_), name) ==
    items[CHOOSE i \in DOMAIN items :
            /\ ok(items[i]) /\ items[i].package = name
            /\ \A j \in DOMAIN items : (ok(items[j]) /\ items[j].package = name) => j <= i]

\* the table a pin without a systemwide key goes to
DefaultPinned == IF new_value.config = "true" THEN flatpak.system_pinned ELSE flatpak.user_pinned

Flag(v) == v = "true"

\* C17: for every entry of a Cargo packages list that parsed, all_features and
\* no_default_features are not both true in the parsed options, all_features
\* is true when it is configured true, the parsed feature list is empty when
\* either flag is true, and it is the configured list when neither is set.
C17_FeatureFlagsExclusive ==
    (op = "new" /\ new_value.kind = "cargo" /\ result = "Ok") =>
      \A n \in DOMAIN cargo.packages :
        LET e == LastOf(new_value.packages.items, LAMBDA x : x.isrec, n)
            spec == cargo.packages[n]
        IN /\ ~(spec.all_features /\ spec.no_default_features)
           /\ Flag(e.all_features) => spec.all_features
           /\ (spec.all_features \/ spec.no_default_features) => spec.features = <<>>
           /\ (~Flag(e.all_features) /\ ~Flag(e.no_default_features)) =>
                /\ ~spec.all_features /\ ~spec.no_default_features
                /\ spec.features = e.features.items

\* an entry with both flags true and a feature list has parsed
C17_Witness ==
    /\ op = "new" /\ new_value.kind = "cargo" /\ result = "Ok"
    /\ Len(new_value.packages.items) = 1
    /\ Flag(new_value.packages.items[1].all_features)
    /\ Flag(new_value.packages.items[1].no_default_features)
    /\ new_value.packages.items[1].features.items = <<"f">>
    /\ cargo.packages["a"].all_features /\ cargo.packages["a"].features = <<>>

\* the configured packages and the members of the configured groups that are
\* not explicitly installed
ArchMissingSet == (ArchConfiguredPlain(arch, probed) \cup ArchMembers) \ probed.explicit

\* C18: in an Arch sync that has something missing, the arguments of the
\* --sync command and those of the --database --asexplicit command are
\* disjoint and together are the missing packages; the missing packages that
\* are installed as dependencies are the arguments of the latter, the others
\* of the former.
C18_MissingPartitioned ==
    (op = "sync" /\ probed.kind = "arch" /\ ArchMissingSet # {}) =>
      /\ ItemsOf({"install"}) \cap ItemsOf({"promote"}) = {}
      /\ ItemsOf({"install"}) \cup ItemsOf({"promote"}) = ArchMissingSet
      /\ ItemsOf({"promote"}) = ArchMissingSet \cap probed.deps
      /\ ItemsOf({"install"}) = ArchMissingSet \ probed.deps
      /\ \A i \in CmdIdx :
           "--sync" \in Range(events[i].argv) =>
             Range(events[i].argv) \cap probed.deps = {}

\* a sync with one missing package installed as a dependency and one not installed
C18_Witness ==
    /\ op = "sync" /\ probed.kind = "arch"
    /\ ArchMissingSet \cap probed.deps # {} /\ ArchMissingSet \ probed.deps # {}
    /\ ItemsOf({"promote"}) # {} /\ ItemsOf({"install"}) # {}

\* the component lines whose name starts with one of cargo, clippy, rust-docs,
\* rust-std, rust-src, rustc, rustfmt
DefaultPrefixed ==
    {"rustc-x86_64-unknown-linux-gnu", "rustc-dev-x86_64-unknown-linux-gnu"}

\* C19: no installed component whose name starts with the name of a default
\* component is an argument of a `rustup component remove' command.
C19_DefaultComponentsKept ==
    \A i \in CmdIdx :
        events[i].kind = "component-remove" =>
            Range(events[i].argv) \cap DefaultPrefixed = {}

\* a clean found rustc, rustc-dev and rust-analyzer installed for a matched
\* toolchain that configures no component, and removed rust-analyzer
C19_Witness ==
    /\ backend = "Rustup" /\ op = "clean" /\ probed.kind = "rustup"
    /\ DefaultPrefixed \subseteq Range(probed.components)
    /\ \E i \in CmdIdx :
         /\ events[i].kind = "component-remove"
         /\ "rust-analyzer-x86_64-unknown-linux-gnu" \in Range(events[i].argv)

\* C20: within a pass, no command is spawned after a spawned command has
\* exited non-zero (in Arch sync, no --database --asexplicit after a failed
\* --sync), and the pass returns an error.
C20_FailedCommandEndsPass ==
    \A i \in CmdIdx :
        (events[i].mode = "run" /\ ~events[i].ok) =>
            /\ result = "Err"
            /\ \A j \in CmdIdx : j > i => events[j].mode # "run"

\* the same, for the passes of the backends other than Arch
FailedCommandEndsOtherPasses ==
    backend # "Arch" => C20_FailedCommandEndsPass

IsPrefix(s, t) == Len(s) <= Len(t) /\ \A i \in DOMAIN s : s[i] = t[i]

\* the hooks of the log, in the order they ran
HooksRun ==
    LET hs == SelectSeq(events, LAMBDA e : e.type = "hook")
    IN [i \in DOMAIN hs |-> hs[i].id]

\* the lists of hooks a sync pass may have scheduled, one for each order in
\* which the backend's map can be walked
ScheduledHooks ==
    CASE probed.kind = "arch" ->
           {ArchClosures(arch, probed, ord) :
               ord \in Orders(ArchConfiguredPlain(arch, probed))}
      [] probed.kind = "cargo" ->
           {CargoPostHooks(cargo, ord) : ord \in Orders(CargoMissing(cargo, probed))}
      [] probed.kind = "flatpak" -> {FlatpakInstallPlan(flatpak, probed).closures}
      [] OTHER -> {<<>>}

\* C21: in a sync pass the hooks that ran are a prefix of the scheduled list,
\* in its order; a hook that fails is the last event of the pass and the pass
\* returns an error; when no hook fails and the pass returns Ok every
\* scheduled hook ran; no command follows a hook and no removal is issued.
C21_HooksRunAsPrefix ==
    (op = "sync" /\ Probed) =>
      /\ \E scheduled \in ScheduledHooks :
           /\ IsPrefix(HooksRun, scheduled)
           /\ (HookIdx # {} /\ result = "Ok") => HooksRun = scheduled
      /\ \A i \in HookIdx : ~events[i].ok => (result = "Err" /\ i = Len(events))
      /\ \A i \in HookIdx : \A j \in CmdIdx : j < i
      /\ \A j \in CmdIdx : events[j].kind \notin RemoveKinds

\* two hooks were scheduled, the first ran and failed, the second did not run
C21_Witness ==
    /\ op = "sync" /\ Probed /\ result = "Err"
    /\ Len(HooksRun) = 1 /\ ~events[Len(events)].ok /\ events[Len(events)].type = "hook"
    /\ \E scheduled \in ScheduledHooks : Len(scheduled) = 2 /\ IsPrefix(HooksRun, scheduled)

\* the commands of the log that begin with sudo
Elevated == {i \in CmdIdx : events[i].argv[1] = "sudo"}

\* C22: a command begins with sudo iff it is given the Root permission, and
\* an empty argument list returns an error and runs nothing; Arch::new takes
\* the configured package manager ("paru" when the key is absent), fails when
\* the key is not a string, and the Arch commands are elevated iff the package
\* manager is "pacman"; the other backends never elevate.
C22_SudoIffRoot ==
    /\ op = "command" =>
         /\ new_value.args = <<>> => (events = <<>> /\ result = "Err")
         /\ new_value.args # <<>> =>
              /\ Len(events) = 1
              /\ Elevated = CmdIdx <=> new_value.perms = "Root"
              /\ events[1].argv = (IF new_value.perms = "Root" THEN <<"sudo">> ELSE <<>>)
                                    \o new_value.args
    /\ (op = "new" /\ new_value.kind = "arch") =>
         /\ new_value.config = WrongType => result = "Err"
         /\ result = "Ok" =>
              /\ arch.package_manager
                   = (IF new_value.config = Absent THEN "paru" ELSE new_value.config)
              /\ arch.perms = "Root" <=> new_value.config = "pacman"
              /\ arch.perms \in {"Root", "User"}
    /\ (backend = "Arch" /\ op \in {"sync", "clean", "clean_cache"}) =>
         /\ arch.package_manager = "pacman" => Elevated = CmdIdx
         /\ arch.package_manager # "pacman" => Elevated = {}
    /\ backend \in {"Cargo", "Flatpak", "Rustup"} => Elevated = {}

\* an Arch pass with pacman issued a command, and it begins with sudo
C22_Witness ==
    /\ backend = "Arch" /\ op = "sync" /\ arch.package_manager = "pacman"
    /\ CmdIdx # {} /\ Elevated = CmdIdx

\* run_command was given an empty argument list
EmptyCommandRejected ==
    op = "command" /\ new_value.args = <<>> /\ result = "Err" /\ events = <<>>

\* worked by hand from the lines of `flatpak pin': the id, arch and branch of
\* foo/x86_64/stable and of runtime/foo/x86_64/beta
LineId(line) == "foo"
LineArch(line) == "x86_64"
LineBranch(line) == IF line = <<"foo", "x86_64", "stable">> THEN "stable" ELSE "beta"

\* the configured pin (id, opts) matches the listed pin: the listed id starts
\* with the configured id and the fields the configured pin gives are equal
PinMatches(id, o, line) ==
    /\ LineId(line) = id
    /\ o.branch = None \/ o.branch = LineBranch(line)
    /\ o.arch = None \/ o.arch = LineArch(line)

\* C23: in a Flatpak pass where nothing fails, sync issues `flatpak pin' for
\* an installed runtime with a configured pin exactly when no listed pin of
\* the installation matches the configured pin, and clean removes a listed pin
\* exactly when no configured pin of the installation matches it.
C23_PinFieldsMatched ==
    (backend = "Flatpak" /\ probed.kind = "flatpak" /\ NothingFailed) =>
      \A systemwide \in BOOLEAN :
        LET pins == configured_pins(flatpak, systemwide)
            lines == Range(ScopeEnv(probed, systemwide).pins)
            issued(kind) == UNION {Range(events[i].items) :
                                     i \in {j \in CmdIdx :
                                              /\ events[j].kind = kind
                                              /\ ScopeFlag(systemwide)
                                                   \in Range(events[j].argv)}}
        IN /\ op = "sync" =>
                \A id \in DOMAIN pins \cap ScopeEnv(probed, systemwide).installed :
                    id \in issued("pin")
                      <=> ~\E l \in lines : PinMatches(id, pins[id], l)
           /\ op = "clean" =>
                \A l \in lines :
                    LineId(l) \in issued("unpin")
                      <=> ~\E id \in DOMAIN pins : PinMatches(id, pins[id], l)

\* a field of the entry that is present has the wrong type
HasWrongType(e) ==
    /\ e.isrec
    /\ CASE new_value.kind = "arch" -> WrongType \in {e.package, e.post_hook}
         [] new_value.kind = "cargo" ->
              \/ WrongType \in {e.package, e.post_hook, e.all_features,
                                e.no_default_features, e.git_remote}
              \/ e.features.kind = "notlist" \/ WrongType \in Range(e.features.items)
         [] new_value.kind = "flatpak" ->
              WrongType \in {e.package, e.post_hook, e.remote, e.systemwide}
         [] OTHER -> FALSE

\* C24: new fails on a packages list that holds an entry one of whose present
\* fields has the wrong type, whatever the other fields of the entry are.
C24_WrongTypeFails ==
    (op = "new" /\ new_value.kind \in {"arch", "cargo", "flatpak"}
       /\ new_value.packages.kind = "list") =>
      ((\E i \in DOMAIN new_value.packages.items : HasWrongType(new_value.packages.items[i]))
          => result = "Err")

\* the same for the entries that do not set all_features or no_default_features
WrongTypeFailsUnmasked ==
    (op = "new" /\ new_value.kind \in {"arch", "cargo", "flatpak"}
       /\ new_value.packages.kind = "list") =>
      ((\E i \in DOMAIN new_value.packages.items :
           LET e == new_value.packages.items[i] IN
           /\ HasWrongType(e)
           /\ new_value.kind = "cargo" =>
                (e.all_features # "true" /\ e.no_default_features # "true"))
          => result = "Err")

\* C25: the pattern of every `flatpak pin' command that sync issues, parsed by
\* parse_runtime_format, gives the id, the branch and the arch of the
\* configured pin it was built from.
C25_PinPatternRoundTrip ==
    (backend = "Flatpak" /\ op = "sync") =>
      \A i \in CmdIdx : \A systemwide \in BOOLEAN :
        (events[i].kind = "pin" /\ events[i].argv[3] = ScopeFlag(systemwide)) =>
          LET id == events[i].items[1]
              pin == configured_pins(flatpak, systemwide)[id]
              parsed == parse_runtime_format(events[i].patterns[1], systemwide)
          IN /\ parsed.runtime = id
             /\ parsed.opts.branch = pin.branch
             /\ parsed.opts.arch = pin.arch

\* the same for the pins that give neither a branch nor an arch
BarePinRoundTrip ==
    (backend = "Flatpak" /\ op = "sync") =>
      \A i \in CmdIdx : \A systemwide \in BOOLEAN :
        (events[i].kind = "pin" /\ events[i].argv[3] = ScopeFlag(systemwide)) =>
          LET id == events[i].items[1]
              pin == configured_pins(flatpak, systemwide)[id]
              parsed == parse_runtime_format(events[i].patterns[1], systemwide)
          IN (pin.branch = None /\ pin.arch = None) =>
               /\ parsed.runtime = id
               /\ parsed.opts.branch = None /\ parsed.opts.arch = None

----------------------------------------------------------------------------
(* A second sync pass on the state the first one leaves *)

\* a sync pass that completed, its commands spawned and successful
SyncCompleted(b) ==
    /\ backend = b /\ op = "sync" /\ result = "Ok"
    /\ NothingFailed /\ ~opts.dry_run

\* the names carried, in order, by the commands of the given kinds
CmdItems(kinds) ==
    LET sel == SelectSeq(events, LAMBDA e : e.type = "cmd" /\ e.kind \in kinds)
    IN Flatten([i \in DOMAIN sel |-> sel[i].items])

\* Arch: the installed and the promoted packages are explicitly installed
ArchAfter ==
    [probed EXCEPT !.explicit = @ \cup Range(CmdItems({"install", "promote"})),
                   !.deps = @ \ Range(CmdItems({"install", "promote"}))]

\* Cargo: the installed crates are recorded in the primary document; an
\* install through binstall either logs them as well or, having fallen back
\* to a source build, leaves the binstall log as it was
CargoAfter ==
    LET names == Range(CmdItems({"install"}))
        source == [probed EXCEPT !.crates_read = @ \/ names # {}, !.source = @ \cup names]
        logged == [source EXCEPT !.binstall_read = @ \/ names # {},
                                 !.log = @ \cup names, !.bins = @ \cup names]
    IN IF cargo.installopt = "binstall" THEN {source, logged} ELSE {source}
CargoAfterLogged ==
    {env \in CargoAfter :
        cargo.installopt = "binstall" => Range(CmdItems({"install"})) \subseteq env.bins}

\* Flatpak: within an installation the installed names are listed by
\* `flatpak list' and the pinned patterns by `flatpak pin'
FlatpakScopeAfter(systemwide) ==
    LET sc == ScopeEnv(probed, systemwide)
        mine == SelectSeq(events, LAMBDA e : e.type = "cmd"
                                              /\ e.argv[3] = ScopeFlag(systemwide))
        installed == SelectSeq(mine, LAMBDA e : e.kind = "install")
        pinned == SelectSeq(mine, LAMBDA e : e.kind = "pin")
    IN [installed |-> sc.installed
                      \cup Range(Flatten([i \in DOMAIN installed |-> installed[i].items])),
        pins |-> sc.pins \o [i \in DOMAIN pinned |-> pinned[i].patterns[1]]]
FlatpakAfter ==
    [probed EXCEPT !.user = FlatpakScopeAfter(FALSE), !.system = FlatpakScopeAfter(TRUE)]

\* Rustup: the toolchains that were missing are listed, with the components
\* and targets their install command named; the added targets and components
\* are listed.  Which of DEFAULT_COMPONENTS a fresh toolchain brings is rustup's
\* choice (its profile), the install command names none of them: brought is
\* the set it brings.
RustupNewToolchains ==
    SelectSeq(ToolchainKeys(rustup),
              LAMBDA t : ~\E i \in DOMAIN probed.toolchains :
                              starts_with(probed.toolchains[i], t))
RustupAfterWith(brought) ==
    LET new == RustupNewToolchains IN
    [probed EXCEPT
        !.lines = @ \o new,
        !.toolchains = @ \o new,
        !.targets = @ \o Flatten([i \in DOMAIN new |-> rustup.toolchains[new[i]].targets])
                      \o CmdItems({"target-add"}),
        !.components = @ \o Flatten([i \in DOMAIN new |->
                                        rustup.toolchains[new[i]].components])
                         \o CmdItems({"component-add"})
                         \o (IF new = <<>> THEN <<>>
                             ELSE SelectSeq(DEFAULT_COMPONENTS, LAMBDA c : c \in brought))]
RustupAfter == {RustupAfterWith(brought) : brought \in {{}, Range(DEFAULT_COMPONENTS)}}

\* the second pass, all of its commands and hooks succeeding
ArchAgain(env) ==
    \A ord \in Orders(ArchConfiguredPlain(arch, env)) :
        Arch_install(arch, opts, env, ord, TRUE, TRUE, 0).events = <<>>
CargoAgain(env) ==
    \A ord \in Orders(CargoMissing(cargo, env)) :
        Cargo_install(cargo, opts, env, ord, 0, 0).events = <<>>
FlatpakAgain(env) == Flatpak_install(flatpak, opts, env, 0, 0).events = <<>>
RustupAgain(env) == Rustup_install(rustup, opts, env, 0).events = <<>>

\* C26: after a sync pass that completed with every command successful and
\* effective, a second sync pass with the same configuration issues no
\* command and runs no hook, for every backend.
C26_Convergence ==
    /\ SyncCompleted("Arch") => ArchAgain(ArchAfter)
    /\ SyncCompleted("Cargo") => \A env \in CargoAfter : CargoAgain(env)
    /\ SyncCompleted("Flatpak") => FlatpakAgain(FlatpakAfter)
    /\ SyncCompleted("Rustup") => \A env \in RustupAfter : RustupAgain(env)

\* the second pass is idle for Arch and Flatpak, for Cargo when the installed
\* crates are visible to the next reading of the files, and for Rustup when
\* the fresh toolchains bring every default component
ConvergenceWhenVisible ==
    /\ SyncCompleted("Arch") => ArchAgain(ArchAfter)
    /\ SyncCompleted("Cargo") => \A env \in CargoAfterLogged : CargoAgain(env)
    /\ SyncCompleted("Flatpak") => FlatpakAgain(FlatpakAfter)
    /\ SyncCompleted("Rustup") => RustupAgain(RustupAfterWith(Range(DEFAULT_COMPONENTS)))
ConvergenceWitness ==
    /\ SyncCompleted("Rustup")
    /\ \E i \in CmdIdx : events[i].kind = "toolchain-install"
    /\ RustupAgain(RustupAfterWith(Range(DEFAULT_COMPONENTS)))

----------------------------------------------------------------------------
(* A clean pass on the state a sync pass leaves *)

\* the names the clean pass of each backend selects on the state env
ArchRemoved(env) ==
    UNION {Range(Flatten([i \in DOMAIN r |-> r[i].items])) :
             r \in {Arch_remove(arch, opts, env, ord, TRUE).events :
                      ord \in Orders(ArchExtra(arch, env))}}
CargoRemoved(env) ==
    UNION {Range(Flatten([i \in DOMAIN r |-> r[i].items])) :
             r \in {Cargo_remove(cargo, [opts EXCEPT !.no_confirm = TRUE], env, ord, 0).events :
                      ord \in Orders(CargoExtra(cargo, env))}}
StepItems(steps, kind) ==
    LET sel == SelectSeq(steps, LAMBDA st : st.kind = kind)
    IN Range(Flatten([i \in DOMAIN sel |-> sel[i].items]))
\* the steps of a Rustup plan that name the toolchain t after --toolchain
StepsFor(steps, t) ==
    SelectSeq(steps, LAMBDA st : Len(st.args) >= 5 /\ st.args[4] = "--toolchain"
                                  /\ st.args[5] = t)

\* the names sync installed, from its commands
SyncInstalled(kinds) == Range(CmdItems(kinds))

ArchKept ==
    Range(CmdItems({"install", "promote"}))
        \cup ((ArchConfiguredPlain(arch, probed) \cup ArchMembers) \cap probed.explicit)
CargoKept ==
    Range(CmdItems({"install"}))
        \cup (DOMAIN cargo.packages \cap Cargo_get_installed_packages(cargo, probed))

FlatpakConsistent(env) ==
    \A systemwide \in BOOLEAN :
      LET pins == DOMAIN configured_pins(flatpak, systemwide)
          pkgs == DOMAIN configured_packages(flatpak, systemwide)
      IN /\ StepItems(remove_pins(flatpak, env, systemwide), "unpin") \cap pins = {}
         /\ StepItems(remove_packages(flatpak, env, systemwide), "remove")
                \cap (pkgs \cup pins) = {}

RustupConsistent(env) ==
    LET plan == RustupRemovePlan(rustup, env)
        first == RustupInstallPlan(rustup, probed)
    IN /\ \A l \in StepItems(plan, "toolchain-remove") :
            \A t \in DOMAIN rustup.toolchains : ~starts_with(l, t)
       /\ \A t \in DOMAIN rustup.toolchains :
            /\ StepItems(StepsFor(plan, t), "target-remove")
                 \cap (Range(rustup.toolchains[t].targets)
                       \cup StepItems(StepsFor(first, t), "target-add")) = {}
            /\ \A c \in StepItems(StepsFor(plan, t), "component-remove") :
                 /\ \A k \in Range(rustup.toolchains[t].components)
                           \cup StepItems(StepsFor(first, t), "component-add") :
                      ~starts_with(c, k)
                 /\ c \notin StepItems(StepsFor(first, t), "component-add")

C28_HookOfInstalledPackageRuns ==
    (backend = "Cargo" /\ op = "sync" /\ \A h \in HookIdx : events[h].ok) =>
      \A i \in CmdIdx :
        (/\ events[i].kind = "install" /\ events[i].ok
         /\ cargo.packages[events[i].items[1]].post_hook # None) =>
          \E h \in HookIdx : h > i /\ events[h].id.name = events[i].items[1]

\* the same when no install command of the pass failed
HookRunsWhenAllInstalled ==
    (backend = "Cargo" /\ op = "sync" /\ \A k \in DOMAIN events : events[k].ok) =>
      \A i \in CmdIdx :
        (/\ events[i].kind = "install"
         /\ cargo.packages[events[i].items[1]].post_hook # None) =>
          \E h \in HookIdx : h > i /\ events[h].id.name = events[i].items[1]

\* C29: with binstall enabled and the primary document read, the installed
\* set that Cargo sync and clean work from is the union of the names of the
\* primary document and of the binstall-log packages whose binaries exist; an
\* unreadable binstall log contributes the empty set.
C29_BinstallUnion ==
    (/\ backend = "Cargo" /\ op \in {"sync", "clean"} /\ probed.kind = "cargo"
     /\ cargo.installopt = "binstall" /\ probed.crates_read) =>
      LET logged == IF probed.binstall_read THEN probed.bins ELSE {}
      IN /\ Cargo_get_installed_packages(cargo, probed) = probed.source \cup logged
         /\ op = "sync" =>
              Range(CmdItems({"install"})) \cap (probed.source \cup logged) = {}

\* the same when the binstall log was read
BinstallUnionWhenLogRead ==
    (/\ backend = "Cargo" /\ op \in {"sync", "clean"} /\ probed.kind = "cargo"
     /\ cargo.installopt = "binstall" /\ probed.crates_read /\ probed.binstall_read) =>
      /\ Cargo_get_installed_packages(cargo, probed) = probed.source \cup probed.bins
      /\ op = "sync" =>
           Range(CmdItems({"install"})) \cap (probed.source \cup probed.bins) = {}
BinstallUnionWitness ==
    /\ backend = "Cargo" /\ op = "sync" /\ probed.kind = "cargo"
    /\ cargo.installopt = "binstall" /\ probed.binstall_read
    /\ probed.bins \ probed.source # {}
    /\ Range(CmdItems({"install"})) # {}

\* the argument list a toolchain install is to carry after `install'
ToolchainFlags(t) ==
    (IF rustup.toolchains[t].components = <<>> THEN <<>>
     ELSE <<"--component">> \o rustup.toolchains[t].components)
    \o (IF rustup.toolchains[t].targets = <<>> THEN <<>>
        ELSE <<"--target">> \o rustup.toolchains[t].targets)
ToolchainInstalls ==
    SelectSeq(events, LAMBDA e : e.type = "cmd" /\ e.kind = "toolchain-install")

\* C30: in a Rustup sync none of whose steps failed, every configured
\* toolchain id that no installed toolchain matches has exactly one
\* `rustup toolchain install' command, carrying the id, then --component with
\* the configured components and --target with the configured targets, each
\* only when its list is non-empty.
C30_ToolchainInstallNamesId ==
    (backend = "Rustup" /\ op = "sync" /\ NothingFailed) =>
      \A t \in Range(RustupNewToolchains) :
        Cardinality({i \in DOMAIN ToolchainInstalls :
                       ToolchainInstalls[i].argv
                         = <<"rustup", "toolchain", "install", t>> \o ToolchainFlags(t)}) = 1

\* what holds instead: one command per unmatched toolchain, in the order of the
\* keys, carrying the flags and no toolchain id
ToolchainInstallWithoutId ==
    (backend = "Rustup" /\ op = "sync" /\ NothingFailed) =>
      /\ Len(ToolchainInstalls) = Len(RustupNewToolchains)
      /\ \A i \in DOMAIN ToolchainInstalls :
           ToolchainInstalls[i].argv
             = <<"rustup", "toolchain", "install">> \o ToolchainFlags(RustupNewToolchains[i])
ToolchainInstallWitness ==
    /\ backend = "Rustup" /\ op = "sync" /\ NothingFailed
    /\ \E i \in DOMAIN ToolchainInstalls : Len(ToolchainInstalls[i].argv) > 3

====
